---------------------------- MODULE Spec2Model ----------------------------
(***************************************************************************)
(* Record linkage core of App-Facturacion-Costos (src/src/data_matcher.py) *)
(* with the registry lookups of src/src/excel_processor.py and the         *)
(* extraction of the records from the text of a PDF                        *)
(* (src/src/pdf_extractor.py).                                             *)
(*                                                                         *)
(* Text is modelled as a sequence of one-character strings.  Characters    *)
(* outside ASCII are written with an ASCII mark after the base letter:     *)
(*   "a'" "e'" "i'" "o'" "u'"  the accented vowels,  "u:" u with diaeresis,*)
(*   "n~" n with tilde, and the same with a capital base letter.           *)
(* A float is modelled as an exact fraction <<num, den>> with den > 0.     *)
(***************************************************************************)
EXTENDS Integers, Sequences, FiniteSets, TLC

VARIABLES
    \* ---- harness of the pure functions --------------------------------
    fpc,            \* position of the caller of a pure function
    text,           \* normalize_text: argument
    normalized,     \* normalize_text(text)
    renormalized,   \* normalize_text(normalize_text(text))
    name1,          \* calculate_name_similarity: first argument
    name2,          \* calculate_name_similarity: second argument
    similarity12,   \* calculate_name_similarity(name1, name2)
    similarity21,   \* calculate_name_similarity(name2, name1)
    name,           \* format_name: argument
    formatted,      \* format_name(name)
    nombres_encontrados,    \* format_name: the (position, name) pairs found
    \* ---- the registry: ExcelProcessor --------------------------------
    dataframe,      \* the rows of the Excel sheet, in sheet order
    column_mapping, \* which of the three columns detect_columns found
    \* ---- the linker: DataMatcher -------------------------------------
    excel_processor,        \* self.excel_processor: an ExcelProcessor or None
    pc,             \* position of the caller of the DataMatcher
    min_name_similarity,    \* perform_full_matching: argument
    pdf_employees,          \* the records handed to the ID pass
    matched_by_cedula,      \* match_by_cedula: first returned list
    remaining_after_cedula, \* match_by_cedula: second returned list
    matched_by_name,        \* match_by_name: first returned list
    unmatched_by_name,        \* match_by_name: second returned list
    matched_employees,      \* self.matched_employees
    unmatched_employees,    \* self.unmatched_employees
    results,                \* what perform_full_matching returned
    consolidated,           \* what get_consolidated_data returned
    top_n,                  \* suggest_manual_matches: argument
    suggestions,            \* what suggest_manual_matches returned
    \* ---- the extractor: PDFExtractor ----------------------------------
    pdf_pc,         \* position of the caller of the PDFExtractor
    pdf_pages,      \* the text of each page of the PDF
    text_content,   \* self.text_content
    employees_data, \* self.employees_data
    \* ---- the linker's other collaborator ------------------------------
    pdf_extractor,  \* self.pdf_extractor: a PDFExtractor or None
    \* ---- the entry point: main() of src/main.py ------------------------
    main_pc,        \* position in main()
    argv,           \* the command line
    args,           \* what parser.parse_args() returned
    exit_status,    \* the status the process exited with, -1 before
    \* ---- the window: MainApplication of src/src/ui.py ------------------
    process_button, \* the state option of self.process_button
    workers,        \* the threads running _process_files_thread
    after_callbacks,    \* the callbacks given to root.after, not yet run
    results_window  \* what the ResultsWindow shows

fnVars == <<fpc, text, normalized, renormalized, name1, name2,
            similarity12, similarity21, name, formatted, nombres_encontrados>>

linkVars == <<dataframe, column_mapping, pc, min_name_similarity,
              pdf_employees, matched_by_cedula, remaining_after_cedula,
              matched_by_name, matched_employees, unmatched_employees,
              results, consolidated, excel_processor, top_n, suggestions,
              unmatched_by_name>>

linkVarsButPc == <<dataframe, column_mapping, min_name_similarity,
                   pdf_employees, matched_by_cedula, remaining_after_cedula,
                   matched_by_name, matched_employees, unmatched_employees,
                   results, consolidated, excel_processor, top_n, suggestions,
                   unmatched_by_name>>

pdfVars == <<pdf_pc, pdf_pages, text_content, employees_data>>

appVars == <<pdf_extractor, main_pc, argv, args, exit_status, process_button,
             workers, after_callbacks, results_window>>

vars == <<fnVars, linkVars, pdfVars, appVars>>

(***************************************************************************)
(* Bounds                                                                  *)
(***************************************************************************)
MaxTextLen == 5
MaxNameLen == 3
MaxRows == 2
MaxBatch == 2
MaxTopN == 2
MaxPages == 2
MaxCutLen == 10
MaxWorkers == 2

(***************************************************************************)
(* Characters                                                              *)
(***************************************************************************)
Min(S) == CHOOSE x \in S : \A y \in S : x <= y
Max(S) == CHOOSE x \in S : \A y \in S : x >= y

UpperLetters ==
    <<"A","B","C","D","E","F","G","H","I","J","K","L","M","N","O","P","Q",
      "R","S","T","U","V","W","X","Y","Z","N~","A'","E'","I'","O'","U'","U:">>
LowerLetters ==
    <<"a","b","c","d","e","f","g","h","i","j","k","l","m","n","o","p","q",
      "r","s","t","u","v","w","x","y","z","n~","a'","e'","i'","o'","u'","u:">>
Digits == {"0","1","2","3","4","5","6","7","8","9"}

Range(s) == {s[i] : i \in DOMAIN s}

\* str.lower() / str.upper() on one character
UpperSet == Range(UpperLetters)
LowerSet == Range(LowerLetters)
LowerChar(c) ==
    IF c \in UpperSet
    THEN LowerLetters[CHOOSE i \in DOMAIN UpperLetters : UpperLetters[i] = c]
    ELSE c
UpperChar(c) ==
    IF c \in LowerSet
    THEN UpperLetters[CHOOSE i \in DOMAIN LowerLetters : LowerLetters[i] = c]
    ELSE c

\* the classes \s and \w of the re module, and str.isspace
SpaceChars == {" ", "\t", "\n"}
WordChars == UpperSet \cup LowerSet \cup Digits \cup {"_"}
IsSpace(c) == c \in SpaceChars
IsWord(c) == c \in WordChars

\* (the concatenation with <<>> makes TLC keep the sequence itself, not the
\* rule that gives its elements)
\* F(v), the value v being computed once for all the places of F that use it
With(v, F(_)) == CHOOSE r \in {F(x) : x \in {v}} : TRUE

MapSeq(s, Op(_)) == With(s, LAMBDA t : [i \in DOMAIN t |-> Op(t[i])] \o <<>>)
Lower(s) == MapSeq(s, LowerChar)
Upper(s) == MapSeq(s, UpperChar)

\* str.lstrip(), str.rstrip(), str.strip()
RECURSIVE LStrip(_)
LStrip(s) == IF s # <<>> /\ IsSpace(s[1]) THEN LStrip(Tail(s)) ELSE s
RECURSIVE RStrip(_)
RStrip(s) ==
    IF s # <<>> /\ IsSpace(s[Len(s)]) THEN RStrip(SubSeq(s, 1, Len(s) - 1)) ELSE s
Strip(s) == RStrip(LStrip(s))

(***************************************************************************)
(* DataMatcher.normalize_text                                              *)
(***************************************************************************)
\* the replacements dictionary: accented character -> plain character
Unaccent(c) ==
    CASE c = "a'" -> "a" [] c = "e'" -> "e" [] c = "i'" -> "i"
      [] c = "o'" -> "o" [] c = "u'" -> "u" [] c = "n~" -> "n"
      [] c = "u:" -> "u" [] OTHER -> c

\* re.sub(r'\s+', ' ', text)
CollapseSpaces(s) ==
    LET F[i \in 0..Len(s)] ==
            IF i = 0 THEN <<>>
            ELSE IF IsSpace(s[i])
                 THEN IF i > 1 /\ IsSpace(s[i-1]) THEN F[i-1]
                      ELSE Append(F[i-1], " ")
                 ELSE Append(F[i-1], s[i])
    IN  F[Len(s)]

\* re.sub(r'[^\w\s]', '', text)
RemoveSpecial(s) == SelectSeq(s, LAMBDA c : IsWord(c) \/ IsSpace(c))

normalize_text(t) ==
    IF t = <<>> THEN <<>>
    ELSE Strip(RemoveSpecial(CollapseSpaces(MapSeq(Strip(Lower(t)), Unaccent))))

(***************************************************************************)
(* Floats as exact fractions                                               *)
(***************************************************************************)
RECURSIVE GCD(_, _)
GCD(a, b) == IF b = 0 THEN a ELSE GCD(b, a % b)

\* the float n / d  (d > 0), in lowest terms
Frac(n, d) == LET g == GCD(n, d) IN <<n \div g, d \div g>>

FLess(x, y) == x[1] * y[2] < y[1] * x[2]
FLeq(x, y)  == x[1] * y[2] <= y[1] * x[2]

\* max(x, y, z) of Python: the first of the largest
FMax3(x, y, z) ==
    LET xy == IF FLess(x, y) THEN y ELSE x
    IN  IF FLess(xy, z) THEN z ELSE xy

(***************************************************************************)
(* difflib.SequenceMatcher(None, a, b).ratio() as calculate_name_similarity*)
(* uses it: no junk, and no "popular" elements, which difflib drops only   *)
(* from a second sequence of 200 or more elements.  Indices are 0-based    *)
(* and ranges half-open, as in difflib.                                    *)
(***************************************************************************)
\* length of the common run of a from i and b from j, inside [.., ahi) x [.., bhi)
RECURSIVE RunLength(_, _, _, _, _, _)
RunLength(a, b, i, j, ahi, bhi) ==
    IF i < ahi /\ j < bhi /\ a[i + 1] = b[j + 1]
    THEN 1 + RunLength(a, b, i + 1, j + 1, ahi, bhi)
    ELSE 0

\* find_longest_match: the longest block, earliest in a, then earliest in b
find_longest_match(a, b, alo, ahi, blo, bhi) ==
    With({<<p, RunLength(a, b, p[1], p[2], ahi, bhi)>> :
             p \in {q \in (alo..(ahi-1)) \X (blo..(bhi-1)) : a[q[1] + 1] = b[q[2] + 1]}},
         \* the pairs <<start, size of the run from it>>
         LAMBDA runs :
            IF runs = {} THEN <<alo, blo, 0>>
            ELSE With(Max({r[2] : r \in runs}), LAMBDA k :
                 With(Min({r[1][1] : r \in {q \in runs : q[2] = k}}), LAMBDA i :
                    <<i,
                      Min({r[1][2] : r \in {q \in runs : q[2] = k /\ q[1][1] = i}}),
                      k>>)))

\* get_matching_blocks: total size of the blocks found left and right of
\* the longest one, recursively
RECURSIVE MatchingSize(_, _, _, _, _, _)
MatchingSize(a, b, alo, ahi, blo, bhi) ==
    \* m = <<i, j, k>>
    With(find_longest_match(a, b, alo, ahi, blo, bhi), LAMBDA m :
        IF m[3] = 0 THEN 0
        ELSE m[3]
             + (IF alo < m[1] /\ blo < m[2]
                THEN MatchingSize(a, b, alo, m[1], blo, m[2]) ELSE 0)
             + (IF m[1] + m[3] < ahi /\ m[2] + m[3] < bhi
                THEN MatchingSize(a, b, m[1] + m[3], ahi, m[2] + m[3], bhi)
                ELSE 0))

\* ratio(): 2.0 * matches / (len(a) + len(b)), 1.0 when both are empty
SequenceRatio(a, b) ==
    IF Len(a) + Len(b) = 0 THEN <<1, 1>>
    ELSE Frac(2 * MatchingSize(a, b, 0, Len(a), 0, Len(b)), Len(a) + Len(b))

(***************************************************************************)
(* DataMatcher.calculate_name_similarity                                   *)
(***************************************************************************)
\* str.split(): the maximal runs of non-space characters, in order
Split(s) ==
    LET F[i \in 0..Len(s)] ==
            \* <<words closed so far, word being read>>
            IF i = 0 THEN <<<<>>, <<>>>>
            ELSE LET prev == F[i-1]
                 IN  IF IsSpace(s[i])
                     THEN IF prev[2] = <<>> THEN prev
                          ELSE <<Append(prev[1], prev[2]), <<>>>>
                     ELSE <<prev[1], Append(prev[2], s[i])>>
        last == F[Len(s)]
    IN  IF last[2] = <<>> THEN last[1] ELSE Append(last[1], last[2])

\* set(s.split())
Words(s) == Range(Split(s))

\* p in s
Contains(s, p) ==
    \E i \in 0..(Len(s) - Len(p)) : \A t \in 1..Len(p) : s[i + t] = p[t]

word_similarity(norm_name1, norm_name2) ==
    LET words1 == Words(norm_name1)
        words2 == Words(norm_name2)
    IN  IF Cardinality(words1) = 0 \/ Cardinality(words2) = 0 THEN <<0, 1>>
        ELSE Frac(Cardinality(words1 \cap words2), Cardinality(words1 \cup words2))

contains_similarity(norm_name1, norm_name2) ==
    IF Contains(norm_name2, norm_name1) \/ Contains(norm_name1, norm_name2)
    THEN <<4, 5>> ELSE <<0, 1>>

\* the similarity testing the normalized names for emptiness first
calculate_name_similarity_empty_first(n1, n2) ==
    IF n1 = <<>> \/ n2 = <<>> THEN <<0, 1>>
    ELSE LET norm_name1 == normalize_text(n1)
             norm_name2 == normalize_text(n2)
         IN  IF norm_name1 = <<>> \/ norm_name2 = <<>> THEN <<0, 1>>
             ELSE IF norm_name1 = norm_name2 THEN <<1, 1>>
             ELSE FMax3(SequenceRatio(norm_name1, norm_name2),
                        word_similarity(norm_name1, norm_name2),
                        contains_similarity(norm_name1, norm_name2))

calculate_name_similarity(n1, n2) ==
    IF n1 = <<>> \/ n2 = <<>> THEN <<0, 1>>
    ELSE LET norm_name1 == normalize_text(n1)
             norm_name2 == normalize_text(n2)
         IN  IF norm_name1 = norm_name2 THEN <<1, 1>>
             ELSE FMax3(SequenceRatio(norm_name1, norm_name2),
                        word_similarity(norm_name1, norm_name2),
                        contains_similarity(norm_name1, norm_name2))

(***************************************************************************)
(* DataMatcher.format_name                                                 *)
(***************************************************************************)
\* str.capitalize()
Capitalize(w) ==
    [i \in DOMAIN w |-> IF i = 1 THEN UpperChar(w[i]) ELSE LowerChar(w[i])] \o <<>>

\* ' '.join(words)
RECURSIVE Join(_)
Join(words) ==
    IF words = <<>> THEN <<>>
    ELSE IF Len(words) = 1 THEN words[1]
    ELSE words[1] \o <<" ">> \o Join(Tail(words))

\* ' '.join(word.capitalize() for word in s.split())
CapitalizeWords(s) == Join(MapSeq(Split(s), Capitalize))

\* str.find(p): 0-based index of the first occurrence of p in s, -1 if none
Find(s, p) ==
    LET at == {i \in 0..(Len(s) - Len(p)) : \A t \in 1..Len(p) : s[i + t] = p[t]}
    IN  IF at = {} THEN -1 ELSE Min(at)

\* s.replace(p, ' ' * len(p), 1) for p in s
BlankFirst(s, p) ==
    LET pos == Find(s, p)
    IN  [i \in DOMAIN s |-> IF i > pos /\ i <= pos + Len(p) THEN " " ELSE s[i]] \o <<>>

\* sorted(words, key=len, reverse=True): longest first, equal lengths in
\* the order of the list
RECURSIVE LongestFirstFrom(_, _)
LongestFirstFrom(words, n) ==
    IF n = 0 THEN <<>>
    ELSE SelectSeq(words, LAMBDA w : Len(w) = n) \o LongestFirstFrom(words, n - 1)
LongestFirst(words) ==
    LongestFirstFrom(words, Max({Len(words[i]) : i \in DOMAIN words} \cup {0}))

\* list.sort() of (pos, word) pairs.  No word of a dictionary is a prefix
\* of another, so two found words never share a position.
RECURSIVE SortByPos(_)
SortByPos(pairs) ==
    IF pairs = {} THEN <<>>
    ELSE LET first == CHOOSE p \in pairs : \A q \in pairs : p[1] <= q[1]
         IN  <<first>> \o SortByPos(pairs \ {first})

apellidos_comunes ==
    <<<<"R","O","D","R","I","G","U","E","Z">>,
      <<"M","A","R","T","I","N","E","Z">>, <<"G","A","R","C","I","A">>,
      <<"L","O","P","E","Z">>, <<"G","O","N","Z","A","L","E","Z">>,
      <<"H","E","R","N","A","N","D","E","Z">>, <<"P","E","R","E","Z">>,
      <<"S","A","N","C","H","E","Z">>, <<"R","A","M","I","R","E","Z">>,
      <<"T","O","R","R","E","S">>, <<"F","L","O","R","E","S">>,
      <<"R","I","V","E","R","A">>, <<"G","O","M","E","Z">>,
      <<"D","I","A","Z">>, <<"M","O","R","A","L","E","S">>,
      <<"C","A","S","T","R","O">>, <<"O","R","T","I","Z">>,
      <<"R","U","B","I","O">>, <<"M","E","N","D","O","Z","A">>,
      <<"V","A","R","G","A","S">>, <<"J","I","M","E","N","E","Z">>,
      <<"H","E","R","R","E","R","A">>,
      <<"G","U","T","I","E","R","R","E","Z">>, <<"R","U","I","Z">>,
      <<"V","A","L","E","N","C","I","A">>,
      <<"C","A","R","D","E","N","A","S">>, <<"R","O","J","A","S">>,
      <<"S","I","L","V","A">>, <<"O","S","P","I","N","A">>,
      <<"M","A","R","I","N">>, <<"C","A","S","T","A","N~","O">>,
      <<"R","E","S","T","R","E","P","O">>, <<"S","U","A","R","E","Z">>,
      <<"A","G","U","I","L","A","R">>, <<"M","O","L","I","N","A">>,
      <<"C","O","N","T","R","E","R","A","S">>,
      <<"G","U","E","R","R","E","R","O">>,
      <<"T","R","U","J","I","L","L","O">>, <<"C","O","R","R","E","A">>,
      <<"M","E","D","I","N","A">>, <<"M","O","R","E","N","O">>,
      <<"V","E","G","A">>, <<"R","O","M","E","R","O">>>>

nombres_comunes ==
    <<<<"M","A","R","I","A">>, <<"J","U","A","N">>,
      <<"C","A","R","L","O","S">>, <<"A","N","A">>, <<"L","U","I","S">>,
      <<"C","A","R","M","E","N">>, <<"J","O","S","E">>,
      <<"J","O","R","G","E">>, <<"F","R","A","N","C","I","S","C","O">>,
      <<"A","N","T","O","N","I","O">>, <<"M","A","N","U","E","L">>,
      <<"R","A","F","A","E","L">>, <<"M","I","G","U","E","L">>,
      <<"D","A","N","I","E","L">>, <<"D","A","V","I","D">>,
      <<"P","E","D","R","O">>, <<"A","L","E","J","A","N","D","R","O">>,
      <<"F","E","R","N","A","N","D","O">>, <<"S","E","R","G","I","O">>,
      <<"D","I","E","G","O">>, <<"A","N","D","R","E","A">>,
      <<"C","L","A","U","D","I","A">>, <<"S","A","N","D","R","A">>,
      <<"P","A","T","R","I","C","I","A">>, <<"M","O","N","I","C","A">>,
      <<"G","L","O","R","I","A">>, <<"M","A","R","T","H","A">>,
      <<"R","O","S","A">>, <<"A","D","R","I","A","N","A">>,
      <<"B","E","A","T","R","I","Z">>, <<"C","L","A","R","A">>,
      <<"E","L","E","N","A">>, <<"I","S","A","B","E","L">>,
      <<"L","A","U","R","A">>, <<"L","U","C","I","A">>,
      <<"N","A","N","C","Y">>, <<"O","L","G","A">>,
      <<"P","I","L","A","R">>, <<"M","A","R","C","E","L","A">>,
      <<"A","M","P","A","R","O">>, <<"E","S","P","E","R","A","N","Z","A">>,
      <<"L","U","Z">>, <<"B","L","A","N","C","A">>,
      <<"E","D","U","A","R","D","O">>>>

\* the "casos especificos conocidos": <<name, returned text>>
known_cases ==
    <<<<<<"T","R","U","J","I","L","L","O","P","E","R","E","Z","M","A","R","I","A","C","L","A","R","A">>,
        <<"M","a","r","i","a"," ","C","l","a","r","a"," ","T","r","u","j","i","l","l","o"," ","P","e","r","e","z">>>>,
      <<<<"G","A","R","C","I","A","L","O","P","E","Z","M","A","R","I","A","F","E","R","N","A","N","D","A">>,
        <<"M","a","r","i","a"," ","F","e","r","n","a","n","d","a"," ","G","a","r","c","i","a"," ","L","o","p","e","z">>>>,
      <<<<"R","O","D","R","I","G","U","E","Z","S","I","L","V","A","C","A","R","L","O","S","Y","E","D","U","A","R","D","O">>,
        <<"C","a","r","l","o","s"," ","E","d","u","a","r","d","o"," ","R","o","d","r","i","g","u","e","z"," ","S","i","l","v","a">>>>,
      <<<<"H","E","R","N","A","N","D","E","Z","G","O","M","E","Z","A","N","A","L","U","C","I","A">>,
        <<"A","n","a"," ","L","u","c","i","a"," ","H","e","r","n","a","n","d","e","z"," ","G","o","m","e","z">>>>,
      <<<<"T","O","R","R","E","S","V","A","R","G","A","S","L","U","I","S","M","I","G","U","E","L">>,
        <<"L","u","i","s"," ","M","i","g","u","e","l"," ","T","o","r","r","e","s"," ","V","a","r","g","a","s">>>>,
      <<<<"M","O","R","A","L","E","S","C","A","S","T","R","O","C","A","R","M","E","N","E","L","E","N","A">>,
        <<"C","a","r","m","e","n"," ","E","l","e","n","a"," ","M","o","r","a","l","e","s"," ","C","a","s","t","r","o">>>>,
      <<<<"R","U","I","Z","M","E","N","D","O","Z","A","D","I","E","G","O","A","L","E","J","A","N","D","R","O">>,
        <<"D","i","e","g","o"," ","A","l","e","j","a","n","d","r","o"," ","R","u","i","z"," ","M","e","n","d","o","z","a">>>>,
      <<<<"J","I","M","E","N","E","Z","R","O","J","A","S","S","A","N","D","R","A","P","A","T","R","I","C","I","A">>,
        <<"S","a","n","d","r","a"," ","P","a","t","r","i","c","i","a"," ","J","i","m","e","n","e","z"," ","R","o","j","a","s">>>>,
      <<<<"C","A","S","T","I","L","L","O","H","E","R","R","E","R","A","F","E","R","N","A","N","D","O","J","O","S","E">>,
        <<"F","e","r","n","a","n","d","o"," ","J","o","s","e"," ","C","a","s","t","i","l","l","o"," ","H","e","r","r","e","r","a">>>>,
      <<<<"R","A","M","I","R","E","Z","O","R","T","E","G","A","C","L","A","U","D","I","A","I","S","A","B","E","L">>,
        <<"C","l","a","u","d","i","a"," ","I","s","a","b","e","l"," ","R","a","m","i","r","e","z"," ","O","r","t","e","g","a">>>>>>

\* the loop over the surnames, from the n-th of the sorted list on:
\* <<apellidos_encontrados, texto_restante>>
RECURSIVE SurnameScan(_, _, _, _)
SurnameScan(sorted, n, found, texto_restante) ==
    IF n > Len(sorted) THEN <<found, texto_restante>>
    ELSE IF Contains(texto_restante, sorted[n])
    THEN SurnameScan(sorted, n + 1,
                     found \cup {<<Find(texto_restante, sorted[n]), sorted[n]>>},
                     BlankFirst(texto_restante, sorted[n]))
    ELSE SurnameScan(sorted, n + 1, found, texto_restante)

\* the loop over the given names taking the position in texto_restante
GivenNameScanRestante(sorted, texto_restante, nm) ==
    {<<Find(texto_restante, sorted[n]), sorted[n]>> :
        n \in {k \in DOMAIN sorted : Contains(texto_restante, sorted[k])}}

\* the loop over the given names: found in texto_restante, placed by the
\* position in the original name
GivenNameScan(sorted, texto_restante, nm) ==
    {<<Find(nm, sorted[n]), sorted[n]>> :
        n \in {k \in DOMAIN sorted : Contains(texto_restante, sorted[k])}}

apellidos_sorted == LongestFirst(apellidos_comunes)
nombres_sorted == LongestFirst(nombres_comunes)

\* the default strategy cutting at the middle, whatever the letters
mejor_corte_mitad(nm) == Len(nm) \div 2

\* the default strategy: cut near the middle, after a vowel followed by a
\* consonant
mejor_corte(nm) ==
    LET mitad == Len(nm) \div 2
        lo    == Max({0, mitad - 3})
        hi    == Min({Len(nm), mitad + 4})
        Vowel(c) == c \in {"A", "E", "I", "O", "U"}
        cuts  == {i \in lo..(hi - 1) :
                     i < Len(nm) - 1 /\ Vowel(nm[i + 1]) /\ ~Vowel(nm[i + 2])}
    IN  IF cuts = {} THEN mitad ELSE Min(cuts) + 1

\* the (position, name) pairs in the list nombres_encontrados when the two
\* loops are over
given_names_found(raw) ==
    LET nm   == Strip(Upper(raw))
        scan == SurnameScan(apellidos_sorted, 1, {}, nm)
    IN  GivenNameScan(nombres_sorted, scan[2], nm)

format_name_joined(raw) ==
    LET nm       == Strip(Upper(raw))
        scan     == SurnameScan(apellidos_sorted, 1, {}, nm)
        apellidos_encontrados == scan[1]
        nombres_found == GivenNameScan(nombres_sorted, scan[2], nm)
        known    == {i \in DOMAIN known_cases : known_cases[i][1] = nm}
        corte    == mejor_corte(nm)
        parte1   == SubSeq(nm, 1, corte)
        parte2   == SubSeq(nm, corte + 1, Len(nm))
    IN  IF apellidos_encontrados # {} /\ nombres_found # {}
        THEN LET apellidos == MapSeq(SortByPos(apellidos_encontrados), LAMBDA p : p[2])
                 nombres   == MapSeq(SortByPos(nombres_found), LAMBDA p : p[2])
             IN  CapitalizeWords(Join(nombres \o apellidos))
        ELSE IF known # {}
        THEN known_cases[CHOOSE i \in known : TRUE][2]
        ELSE IF Len(nm) > 8 /\ parte1 # <<>> /\ parte2 # <<>>
        THEN CapitalizeWords(parte2 \o <<" ">> \o parte1)
        ELSE Capitalize(nm)

\* format_name without the branch for names that have spaces
format_name_always_joined(raw) ==
    IF raw = <<>> THEN <<>> ELSE format_name_joined(raw)

format_name(raw) ==
    IF raw = <<>> THEN <<>>
    ELSE IF " " \in Range(raw) THEN CapitalizeWords(raw)
    ELSE format_name_joined(raw)

(***************************************************************************)
(* ExcelProcessor: the registry.  A cell is the text str() gives for it,   *)
(* or NaN for an empty cell.                                               *)
(***************************************************************************)
NaN == <<"NaN">>
notna(cell) == cell # NaN

\* the employee dictionary search_by_cedula and get_all_employees build
\* from a row; `cedula` is the value of the cedula field
RowEmployee(row, mapping, cedula) ==
    [nombre       |-> IF mapping.nombre /\ notna(row.nombre)
                      THEN row.nombre ELSE <<>>,
     cedula       |-> cedula,
     centro_costo |-> IF mapping.centro_costo /\ notna(row.centro_costo)
                      THEN row.centro_costo ELSE <<>>]

\* re.sub(r'[^\d]', '', str(cedula))
clean_cedula(cedula) == SelectSeq(cedula, LAMBDA c : c \in Digits)

\* search_by_cedula raises when no cedula column was detected
search_by_cedula_raises(mapping) == ~mapping.cedula

\* search_by_cedula comparing the cedulas as written
search_by_cedula_exact(df, mapping, cedula) ==
    LET hit(row) == notna(row.cedula) /\ cedula = row.cedula
    IN  MapSeq(SelectSeq(df, hit), LAMBDA row : RowEmployee(row, mapping, row.cedula))

search_by_cedula(df, mapping, cedula) ==
    LET hit(row) == /\ notna(row.cedula)
                    /\ clean_cedula(cedula) = clean_cedula(row.cedula)
    IN  MapSeq(SelectSeq(df, hit), LAMBDA row : RowEmployee(row, mapping, row.cedula))

get_all_employees(df, mapping) ==
    MapSeq(df, LAMBDA row :
        RowEmployee(row, mapping,
                    IF mapping.cedula /\ notna(row.cedula) THEN row.cedula ELSE <<>>))

(***************************************************************************)
(* DataMatcher.match_by_cedula                                             *)
(***************************************************************************)
\* the elements of s at the positions in idx, in the order of s
RECURSIVE Ascending(_)
Ascending(idx) ==
    IF idx = {} THEN <<>> ELSE <<Min(idx)>> \o Ascending(idx \ {Min(idx)})
AtPositions(s, idx) == MapSeq(Ascending(idx), LAMBDA i : s[i])

\* the record has a cedula and the registry has a row for it
cedula_found(pdf_emp, df, mapping) ==
    /\ pdf_emp.cedula # <<>>
    /\ search_by_cedula(df, mapping, pdf_emp.cedula) # <<>>

\* the matched record taking the name from the PDF record
cedula_match_pdf_name(pdf_emp, df, mapping) ==
    LET excel_emp == search_by_cedula(df, mapping, pdf_emp.cedula)[1]
    IN  [nombre_excel |-> pdf_emp.nombre,
         cedula       |-> pdf_emp.cedula,
         centro_costo |-> excel_emp.centro_costo,
         match_method |-> "cedula",
         confidence   |-> <<1, 1>>]

\* the matched record carrying the cedula as the registry writes it
cedula_match_excel_cedula(pdf_emp, df, mapping) ==
    With(search_by_cedula(df, mapping, pdf_emp.cedula)[1], LAMBDA excel_emp :
         [nombre_excel |-> excel_emp.nombre,
          cedula       |-> excel_emp.cedula,
          centro_costo |-> excel_emp.centro_costo,
          match_method |-> "cedula",
          confidence   |-> <<1, 1>>])

\* the matched record built from the last row search_by_cedula returns
cedula_match_last(pdf_emp, df, mapping) ==
    With(search_by_cedula(df, mapping, pdf_emp.cedula), LAMBDA excel_results :
         [nombre_excel |-> excel_results[Len(excel_results)].nombre,
          cedula       |-> pdf_emp.cedula,
          centro_costo |-> excel_results[Len(excel_results)].centro_costo,
          match_method |-> "cedula",
          confidence   |-> <<1, 1>>])

cedula_match(pdf_emp, df, mapping) ==
    LET excel_emp == search_by_cedula(df, mapping, pdf_emp.cedula)[1]
    IN  [nombre_excel |-> excel_emp.nombre,
         cedula       |-> pdf_emp.cedula,
         centro_costo |-> excel_emp.centro_costo,
         match_method |-> "cedula",
         confidence   |-> <<1, 1>>]

\* the call raises at the first record that has a cedula
match_by_cedula_raises(batch, mapping) ==
    /\ search_by_cedula_raises(mapping)
    /\ \E i \in DOMAIN batch : batch[i].cedula # <<>>

\* match_by_cedula leaving every record in the unmatched list
match_by_cedula_keeps_all(batch, df, mapping) ==
    LET found == {i \in DOMAIN batch : cedula_found(batch[i], df, mapping)}
    IN  <<MapSeq(AtPositions(batch, found),
                 LAMBDA pdf_emp : cedula_match(pdf_emp, df, mapping)),
          batch>>

\* <<matched, unmatched>>
match_by_cedula(batch, df, mapping) ==
    LET found == {i \in DOMAIN batch : cedula_found(batch[i], df, mapping)}
    IN  <<MapSeq(AtPositions(batch, found),
                 LAMBDA pdf_emp : cedula_match(pdf_emp, df, mapping)),
          AtPositions(batch, (DOMAIN batch) \ found)>>

(***************************************************************************)
(* DataMatcher.match_by_name                                               *)
(***************************************************************************)
\* the scan replacing the best candidate on an equal score as well
RECURSIVE best_scan_last(_, _, _, _, _)
best_scan_last(nombre, all_excel_employees, i, best_match, best_similarity) ==
    IF i > Len(all_excel_employees) THEN <<best_match, best_similarity>>
    ELSE LET similarity == calculate_name_similarity(
                               nombre, all_excel_employees[i].nombre)
         IN  IF /\ all_excel_employees[i].nombre # <<>>
                /\ FLeq(best_similarity, similarity)
                /\ FLess(<<0, 1>>, similarity)
             THEN best_scan_last(nombre, all_excel_employees, i + 1, i, similarity)
             ELSE best_scan_last(nombre, all_excel_employees, i + 1,
                                 best_match, best_similarity)

\* the scan of all_excel_employees from the i-th on: <<best_match,
\* best_similarity>>, best_match being a position in the list, 0 for None
RECURSIVE best_scan(_, _, _, _, _)
best_scan(nombre, all_excel_employees, i, best_match, best_similarity) ==
    IF i > Len(all_excel_employees) THEN <<best_match, best_similarity>>
    ELSE LET similarity == calculate_name_similarity(
                               nombre, all_excel_employees[i].nombre)
         IN  IF /\ all_excel_employees[i].nombre # <<>>
                /\ FLess(best_similarity, similarity)
             THEN best_scan(nombre, all_excel_employees, i + 1, i, similarity)
             ELSE best_scan(nombre, all_excel_employees, i + 1,
                            best_match, best_similarity)

\* the acceptance test without the threshold, and with a strict one
name_accepted_any(best, min_similarity) == best[1] # 0
name_accepted_strict(best, min_similarity) ==
    best[1] # 0 /\ FLess(min_similarity, best[2])

\* "if best_match and best_similarity >= min_similarity"
name_accepted(best, min_similarity) ==
    best[1] # 0 /\ FLeq(min_similarity, best[2])

name_match(best, all_excel_employees) ==
    LET best_match == all_excel_employees[best[1]]
    IN  [nombre_excel |-> best_match.nombre,
         cedula       |-> best_match.cedula,
         centro_costo |-> best_match.centro_costo,
         match_method |-> "nombre",
         confidence   |-> best[2]]

\* a matcher that reads no registry when it has none
match_by_name_raises_never(ep) == FALSE

\* line 157: self.excel_processor.get_all_employees() is an AttributeError
\* when the matcher was built with None for the registry
match_by_name_raises(ep) == ep = "None"

\* match_by_name leaving the matched records in the unmatched list too
match_by_name_keeps_all(batch, df, mapping, min_similarity) ==
    LET all_excel_employees == get_all_employees(df, mapping)
        best == [i \in DOMAIN batch |->
                    best_scan(batch[i].nombre, all_excel_employees, 1, 0, <<0, 1>>)]
        found == {i \in DOMAIN batch :
                     /\ batch[i].nombre # <<>>
                     /\ name_accepted(best[i], min_similarity)}
    IN  <<MapSeq(Ascending(found),
                 LAMBDA i : name_match(best[i], all_excel_employees)),
          batch>>

\* <<matched, unmatched>>
match_by_name(batch, df, mapping, min_similarity) ==
    LET all_excel_employees == get_all_employees(df, mapping)
        best == [i \in DOMAIN batch |->
                    best_scan(batch[i].nombre, all_excel_employees, 1, 0, <<0, 1>>)]
        found == {i \in DOMAIN batch :
                     /\ batch[i].nombre # <<>>
                     /\ name_accepted(best[i], min_similarity)}
    IN  <<MapSeq(Ascending(found),
                 LAMBDA i : name_match(best[i], all_excel_employees)),
          AtPositions(batch, (DOMAIN batch) \ found)>>

(***************************************************************************)
(* DataMatcher.perform_full_matching: the result dictionary                *)
(***************************************************************************)
full_matching_results(batch, by_cedula, by_name, unmatched_final) ==
    LET all_matched == by_cedula \o by_name
    IN  [matched    |-> all_matched,
         unmatched  |-> unmatched_final,
         statistics |->
            [total_pdf_employees |-> Len(batch),
             matched_by_cedula   |-> Len(by_cedula),
             matched_by_name     |-> Len(by_name),
             total_matched       |-> Len(all_matched),
             total_unmatched     |-> Len(unmatched_final),
             match_rate          |-> IF batch # <<>>
                                     THEN Frac(Len(all_matched), Len(batch))
                                     ELSE <<0, 1>>]]

(***************************************************************************)
(* DataMatcher.get_consolidated_data                                       *)
(***************************************************************************)
\* f"{x:.2f}" as a number of hundredths: to the nearest, a tie to the even
\* one.  Exact for the fractions the bounded names give (denominator < 40).
Hundredths(x) ==
    LET q == (100 * x[1]) \div x[2]
        r == (100 * x[1]) % x[2]
    IN  IF 2 * r > x[2] \/ (2 * r = x[2] /\ q % 2 = 1) THEN q + 1 ELSE q

\* the consolidated record with the registry name as it is written
consolidated_emp_raw_name(emp) ==
    [nombre       |-> emp.nombre_excel,
     cedula       |-> emp.cedula,
     centro_costo |-> emp.centro_costo,
     estado_match |-> IF emp.match_method = "cedula"
                      THEN "Encontrado (cedula)" ELSE "Encontrado (nombre)",
     confianza    |-> Hundredths(emp.confidence)]

consolidated_emp(emp) ==
    [nombre       |-> IF emp.nombre_excel # <<>>
                      THEN format_name(emp.nombre_excel) ELSE <<>>,
     cedula       |-> emp.cedula,
     centro_costo |-> emp.centro_costo,
     estado_match |-> IF emp.match_method = "cedula"
                      THEN "Encontrado (cedula)" ELSE "Encontrado (nombre)",
     confianza    |-> Hundredths(emp.confidence)]

\* the consolidation of the results matched by cedula only
get_consolidated_data_cedula_only(matched) ==
    MapSeq(SelectSeq(matched, LAMBDA emp : emp.match_method = "cedula"),
           consolidated_emp)

get_consolidated_data(matched) == MapSeq(matched, consolidated_emp)

(***************************************************************************)
(* DataMatcher.suggest_manual_matches                                      *)
(***************************************************************************)
\* lines 402-414: the registry positions, in registry order, whose name is
\* more than 0.3 similar to nombre
similarities_above(nombre, all_excel_employees) ==
    SelectSeq([j \in DOMAIN all_excel_employees |-> j],
              LAMBDA j :
                 /\ all_excel_employees[j].nombre # <<>>
                 /\ FLess(<<3, 10>>,
                          calculate_name_similarity(
                              nombre, all_excel_employees[j].nombre)))

\* the list left in registry order
sort_by_similarity_not(nombre, all_excel_employees, positions) == positions

\* line 417: list.sort(key=similarity, reverse=True), a stable sort: the
\* most similar first, equally similar ones in the order they had
RECURSIVE sort_by_similarity(_, _, _)
sort_by_similarity(nombre, all_excel_employees, positions) ==
    IF positions = <<>> THEN <<>>
    ELSE LET sim(k) == calculate_name_similarity(
                           nombre, all_excel_employees[positions[k]].nombre)
             first == Min({k \in DOMAIN positions :
                              \A l \in DOMAIN positions : FLeq(sim(l), sim(k))})
         IN  <<positions[first]>>
             \o sort_by_similarity(nombre, all_excel_employees,
                    SubSeq(positions, 1, first - 1)
                    \o SubSeq(positions, first + 1, Len(positions)))

\* list[:n]
Slice(list, n) ==
    IF n >= 0 THEN SubSeq(list, 1, Min({n, Len(list)}))
    ELSE SubSeq(list, 1, Max({0, Len(list) + n}))

\* lines 418-429: the entry for one name
top_suggestions(nombre, all_excel_employees, n) ==
    MapSeq(Slice(sort_by_similarity(nombre, all_excel_employees,
                     similarities_above(nombre, all_excel_employees)), n),
           LAMBDA j :
              [nombre_excel |-> all_excel_employees[j].nombre,
               cedula_excel |-> all_excel_employees[j].cedula,
               centro_costo |-> all_excel_employees[j].centro_costo,
               similitud    |-> Hundredths(calculate_name_similarity(
                                    nombre, all_excel_employees[j].nombre))])

\* the dictionary returned: from the names of the unmatched records that
\* have suggestions to their suggestions
suggest_manual_matches(unmatched, df, mapping, n) ==
    LET all_excel_employees == get_all_employees(df, mapping)
        keys == {unmatched[i].nombre : i \in DOMAIN unmatched} \ {<<>>}
    IN  [nombre \in {k \in keys :
                        top_suggestions(k, all_excel_employees, n) # <<>>}
            |-> top_suggestions(nombre, all_excel_employees, n)]

(***************************************************************************)
(* Callers of the pure functions.  Each specification below draws the      *)
(* arguments of one function and applies it.                               *)
(***************************************************************************)
Strings(A, n) == UNION {[1..k -> A] : k \in 0..n}

FnQuiet ==
    /\ text = <<>> /\ normalized = <<>> /\ renormalized = <<>>
    /\ name1 = <<>> /\ name2 = <<>>
    /\ similarity12 = <<0, 1>> /\ similarity21 = <<0, 1>>
    /\ name = <<>> /\ formatted = <<>>
    /\ nombres_encontrados = {}

LinkQuiet ==
    /\ dataframe = <<>>
    /\ column_mapping = [nombre |-> TRUE, cedula |-> TRUE, centro_costo |-> TRUE]
    /\ pc = "Unused"
    /\ min_name_similarity = <<7, 10>>
    /\ pdf_employees = <<>>
    /\ matched_by_cedula = <<>> /\ remaining_after_cedula = <<>>
    /\ matched_by_name = <<>>
    /\ matched_employees = <<>> /\ unmatched_employees = <<>>
    /\ results = <<>>
    /\ consolidated = <<>>
    /\ excel_processor = "ExcelProcessor"
    /\ top_n = 0
    /\ suggestions = <<>>
    /\ unmatched_by_name = <<>>

PdfQuiet ==
    /\ pdf_pc = "Unused" /\ pdf_pages = <<>>
    /\ text_content = <<>> /\ employees_data = <<>>

AppQuiet ==
    /\ pdf_extractor = "PDFExtractor"
    /\ main_pc = "Unused" /\ argv = <<>> /\ args = <<>> /\ exit_status = -1
    /\ process_button = "normal"
    /\ workers = <<>> /\ after_callbacks = <<>>
    /\ results_window = <<>>

\* the two names of tests/test_basic.py
JuanPerezAccented == <<"J","u","a","n"," ","P","e'","r","e","z">>
JuanPerezPlain    == <<"J","u","a","n"," ","P","e","r","e","z">>

\* ---- normalize_text ----------------------------------------------------
NormAlphabet == {"a", "B", "e'", " ", "\t", "-"}

InitNorm ==
    /\ AppQuiet
    /\ PdfQuiet
    /\ LinkQuiet
    /\ fpc = "start"
    /\ text \in Strings(NormAlphabet, MaxTextLen)
    /\ normalized = <<>> /\ renormalized = <<>>
    /\ name1 = <<>> /\ name2 = <<>>
    /\ similarity12 = <<0, 1>> /\ similarity21 = <<0, 1>>
    /\ name = <<>> /\ formatted = <<>>
    /\ nombres_encontrados = {}

NormalizeOnce ==
    /\ fpc = "start"
    /\ normalized' = normalize_text(text)
    /\ fpc' = "normalized"
    /\ UNCHANGED <<text, renormalized, name1, name2, similarity12,
                   similarity21, name, formatted>>
    /\ UNCHANGED nombres_encontrados
    /\ UNCHANGED linkVars
    /\ UNCHANGED pdfVars
    /\ UNCHANGED appVars

NormalizeTwice ==
    /\ fpc = "normalized"
    /\ renormalized' = normalize_text(normalized)
    /\ fpc' = "renormalized"
    /\ UNCHANGED <<text, normalized, name1, name2, similarity12,
                   similarity21, name, formatted>>
    /\ UNCHANGED nombres_encontrados
    /\ UNCHANGED linkVars
    /\ UNCHANGED pdfVars
    /\ UNCHANGED appVars

NextNorm == NormalizeOnce \/ NormalizeTwice

SpecNorm == InitNorm /\ [][NextNorm]_vars

\* ---- calculate_name_similarity -----------------------------------------
SimAlphabet == {"a", "E'", " ", "-"}

\* longer names: the same words in another case, with and without accents,
\* with punctuation between spaces, with repeated spaces
SimLongNames ==
    {<<"a"," ","-"," ","a">>, <<"a"," ","a">>, <<"a"," ","e">>,
     <<" ","A"," "," ","e'",".">>, <<"a","-","e">>, <<"A","E'">>,
     JuanPerezAccented, JuanPerezPlain}

SimNames == Strings(SimAlphabet, MaxNameLen) \cup SimLongNames

InitSim ==
    /\ AppQuiet
    /\ PdfQuiet
    /\ LinkQuiet
    /\ fpc = "start"
    /\ name1 \in SimNames
    /\ name2 \in SimNames
    /\ similarity12 = <<0, 1>> /\ similarity21 = <<0, 1>>
    /\ text = <<>> /\ normalized = <<>> /\ renormalized = <<>>
    /\ name = <<>> /\ formatted = <<>>
    /\ nombres_encontrados = {}

SimilarityForward ==
    /\ fpc = "start"
    /\ similarity12' = calculate_name_similarity(name1, name2)
    /\ fpc' = "forward"
    /\ UNCHANGED <<text, normalized, renormalized, name1, name2,
                   similarity21, name, formatted>>
    /\ UNCHANGED nombres_encontrados
    /\ UNCHANGED linkVars
    /\ UNCHANGED pdfVars
    /\ UNCHANGED appVars

SimilarityBackward ==
    /\ fpc = "forward"
    /\ similarity21' = calculate_name_similarity(name2, name1)
    /\ fpc' = "both"
    /\ UNCHANGED <<text, normalized, renormalized, name1, name2,
                   similarity12, name, formatted>>
    /\ UNCHANGED nombres_encontrados
    /\ UNCHANGED linkVars
    /\ UNCHANGED pdfVars
    /\ UNCHANGED appVars

NextSim == SimilarityForward \/ SimilarityBackward

SpecSim == InitSim /\ [][NextSim]_vars

\* ---- format_name -------------------------------------------------------
GARCIA   == apellidos_comunes[3]
LOPEZ    == apellidos_comunes[4]
PEREZ    == apellidos_comunes[7]
TRUJILLO == apellidos_comunes[38]
MARIA    == nombres_comunes[1]
CLARA    == nombres_comunes[31]
CASTILLO == <<"C","A","S","T","I","L","L","O">>
FERNANDA == <<"F","E","R","N","A","N","D","A">>

\* registry names written without spaces: up to two surnames, then up to
\* two given names; and names written with spaces
FormatSurnames == {<<>>, GARCIA, LOPEZ, PEREZ, TRUJILLO, CASTILLO}
FormatGivenNames == {<<>>, MARIA, CLARA, FERNANDA, Lower(MARIA)}
\* a given name lying across the end of a surname
VEGANANCY == <<"V","E","G","A","N","A","N","C","Y">>
ANA == <<"A","N","A">>

\* names written with spaces: the surname first, repeated and surrounding
\* spaces, a tab, lower case and accents, a space alone
FormatSpacedInputs ==
    {a \o <<" ">> \o c : a \in FormatSurnames, c \in FormatGivenNames}
    \cup {<<" ">> \o Lower(GARCIA) \o <<" ", " ">> \o MARIA \o <<" ">>,
          Lower(MARIA) \o <<"\t">> \o Lower(CLARA) \o <<" ">> \o LOPEZ,
          <<"l","O'","p","e","z"," ","e'","V","A">>,
          <<" ">>, <<" ", " ">>,
          JuanPerezAccented}

FormatInputs ==
    {a \o b \o c \o d : a \in FormatSurnames, b \in FormatSurnames,
                        c \in FormatGivenNames, d \in FormatGivenNames}
    \cup {c \o <<" ">> \o a : c \in FormatGivenNames, a \in FormatSurnames}
    \cup FormatSpacedInputs
    \cup {VEGANANCY, VEGANANCY \o ANA}

InitFormat ==
    /\ AppQuiet
    /\ PdfQuiet
    /\ LinkQuiet
    /\ fpc = "start"
    /\ name \in FormatInputs
    /\ formatted = <<>>
    /\ nombres_encontrados = {}
    /\ text = <<>> /\ normalized = <<>> /\ renormalized = <<>>
    /\ name1 = <<>> /\ name2 = <<>>
    /\ similarity12 = <<0, 1>> /\ similarity21 = <<0, 1>>

FormatName ==
    /\ fpc = "start"
    /\ formatted' = format_name(name)
    /\ nombres_encontrados' = IF name = <<>> \/ " " \in Range(name)
                              THEN {} ELSE given_names_found(name)
    /\ fpc' = "formatted"
    /\ UNCHANGED <<text, normalized, renormalized, name1, name2,
                   similarity12, similarity21, name>>
    /\ UNCHANGED linkVars
    /\ UNCHANGED pdfVars
    /\ UNCHANGED appVars

NextFormat == FormatName

SpecFormat == InitFormat /\ [][NextFormat]_vars

\* ---- format_name, the default strategy ---------------------------------
\* registry names written without spaces in which the dictionaries find at
\* most the given name ANA: every word of a vowel and a consonant, the words
\* of 9 letters in lower case too, names opening with a surname, and the
\* names of known_cases
CutAlphabet == {"A", "N"}
CutInputs ==
    Strings(CutAlphabet, MaxCutLen)
    \cup {Lower(w) : w \in [1..9 -> CutAlphabet]}
    \cup {apellidos_comunes[42] \o w : w \in [1..5 -> CutAlphabet]}
    \cup {known_cases[i][1] : i \in DOMAIN known_cases}

InitCut ==
    /\ AppQuiet
    /\ PdfQuiet
    /\ LinkQuiet
    /\ fpc = "start"
    /\ name \in CutInputs
    /\ formatted = <<>>
    /\ nombres_encontrados = {}
    /\ text = <<>> /\ normalized = <<>> /\ renormalized = <<>>
    /\ name1 = <<>> /\ name2 = <<>>
    /\ similarity12 = <<0, 1>> /\ similarity21 = <<0, 1>>

SpecCut == InitCut /\ [][NextFormat]_vars

(***************************************************************************)
(* One run of the DataMatcher over a registry                              *)
(***************************************************************************)
ID_12345678 == <<"1","2","3","4","5","6","7","8">>
ID_1234567  == <<"1","2","3","4","5","6","7">>
ID_7654321  == <<"7","6","5","4","3","2","1">>
TRUJILLOPEREZMARIACLARA == known_cases[1][1]
VENTAS == <<"V","E","N","T","A","S">>

Row(nombre, cedula, centro_costo) ==
    [nombre |-> nombre, cedula |-> cedula, centro_costo |-> centro_costo]

\* rows of the sheet: a name written without spaces, two rows whose names
\* and cedulas differ only in case and punctuation, a row whose cedula
\* has no digit, and a row with empty cells
RowPool ==
    {Row(TRUJILLOPEREZMARIACLARA, ID_12345678, VENTAS),
     Row(<<"a","b"," ","c">>, <<"1",".","2","3","4",".","5","6","7">>, <<"A">>),
     Row(<<"A","B"," ","C">>, ID_1234567, <<"B">>),
     Row(<<"a","b">>, <<"-">>, <<"C">>),
     Row(JuanPerezAccented, ID_7654321, <<"D">>),
     Row(NaN, NaN, NaN)}

RECURSIVE SeqsUpTo(_, _)
SeqsUpTo(S, n) ==
    IF n = 0 THEN {<<>>}
    ELSE LET shorter == SeqsUpTo(S, n - 1)
         IN  shorter \cup {Append(q, x) : q \in shorter, x \in S}

\* detect_columns finds every column, or misses the cedula or the name one
Mappings ==
    {[nombre |-> TRUE,  cedula |-> TRUE,  centro_costo |-> TRUE],
     [nombre |-> TRUE,  cedula |-> FALSE, centro_costo |-> TRUE],
     [nombre |-> FALSE, cedula |-> TRUE,  centro_costo |-> TRUE]}

PdfEmp(nombre, cedula) == [nombre |-> nombre, cedula |-> cedula]

\* records PDFExtractor.extract_employees_data can return: a cedula of 7
\* to 10 digits, no cedula twice, a name of two words or none
ExtractedPool ==
    {PdfEmp(<<>>, ID_12345678),
     PdfEmp(<<"A","b"," ","c">>, ID_1234567),
     PdfEmp(<<"a","b"," ","c","d">>, ID_7654321),
     PdfEmp(<<"x","y"," ","w">>, ID_7654321),
     PdfEmp(<<"A","B"," ","C">>, ID_7654321),
     PdfEmp(JuanPerezPlain, ID_12345678)}
ExtractedBatches ==
    {b \in SeqsUpTo(ExtractedPool, MaxBatch) :
        \A i, j \in DOMAIN b : i # j => b[i].cedula # b[j].cedula}

\* records a caller can hand to match_by_cedula or match_by_name itself;
\* one of them has a name that is a lone full stop
CallerPool ==
    ExtractedPool \cup
    {PdfEmp(<<>>, <<>>),
     PdfEmp(<<"a","b">>, <<".">>),
     PdfEmp(<<".">>, <<>>),
     PdfEmp(<<"a","b">>, <<"1","2","3","4","5","6","7","-">>)}
CallerBatches == SeqsUpTo(CallerPool, MaxBatch)

Thresholds == {<<0, 1>>, <<7, 10>>, <<1, 1>>}

Init ==
    /\ AppQuiet
    /\ PdfQuiet
    /\ fpc = "unused" /\ FnQuiet
    /\ dataframe \in SeqsUpTo(RowPool, MaxRows)
    /\ column_mapping \in Mappings
    /\ pc = "Idle"
    /\ min_name_similarity = <<7, 10>>
    /\ pdf_employees = <<>>
    /\ matched_by_cedula = <<>> /\ remaining_after_cedula = <<>>
    /\ matched_by_name = <<>>
    /\ matched_employees = <<>> /\ unmatched_employees = <<>>
    /\ results = <<>>
    /\ consolidated = <<>>
    /\ excel_processor = "ExcelProcessor"
    /\ top_n = 0
    /\ suggestions = <<>>
    /\ unmatched_by_name = <<>>

\* perform_full_matching(min): line 205, the records of the PDF
Extract ==
    /\ pc = "Idle"
    /\ \E min \in Thresholds : min_name_similarity' = min
    /\ \E batch \in ExtractedBatches : pdf_employees' = batch
    /\ pc' = "IDMatching"
    /\ UNCHANGED <<dataframe, column_mapping, matched_by_cedula,
                   remaining_after_cedula, matched_by_name, matched_employees,
                   unmatched_employees, results, consolidated>>
    /\ UNCHANGED <<excel_processor, top_n, suggestions, unmatched_by_name>>
    /\ UNCHANGED fnVars
    /\ UNCHANGED pdfVars
    /\ UNCHANGED appVars

\* line 208: the ID pass
IdPass ==
    /\ pc = "IDMatching"
    /\ ~match_by_cedula_raises(pdf_employees, column_mapping)
    /\ LET ret == match_by_cedula(pdf_employees, dataframe, column_mapping)
       IN  /\ matched_by_cedula' = ret[1]
           /\ remaining_after_cedula' = ret[2]
    /\ pc' = "NameMatching"
    /\ UNCHANGED <<dataframe, column_mapping, min_name_similarity, pdf_employees,
                   matched_by_name, matched_employees, unmatched_employees,
                   results, consolidated>>
    /\ UNCHANGED <<excel_processor, top_n, suggestions, unmatched_by_name>>
    /\ UNCHANGED fnVars
    /\ UNCHANGED pdfVars
    /\ UNCHANGED appVars

\* line 208, search_by_cedula raising: the run is over, nothing is stored
IdPassRaises ==
    /\ pc = "IDMatching"
    /\ match_by_cedula_raises(pdf_employees, column_mapping)
    /\ pc' = "Raised"
    /\ UNCHANGED <<dataframe, column_mapping, min_name_similarity, pdf_employees,
                   matched_by_cedula, remaining_after_cedula, matched_by_name,
                   matched_employees, unmatched_employees, results, consolidated>>
    /\ UNCHANGED <<excel_processor, top_n, suggestions, unmatched_by_name>>
    /\ UNCHANGED fnVars
    /\ UNCHANGED pdfVars
    /\ UNCHANGED appVars

\* lines 211-236: the name pass on what the ID pass left, then the lists
\* are joined, stored in the instance and returned
NamePass ==
    /\ pc = "NameMatching"
    /\ LET ret == match_by_name(remaining_after_cedula, dataframe,
                                column_mapping, min_name_similarity)
           all_matched == matched_by_cedula \o ret[1]
       IN  /\ matched_by_name' = ret[1]
           /\ unmatched_by_name' = ret[2]
           /\ matched_employees' = all_matched
           /\ unmatched_employees' = ret[2]
           /\ results' = full_matching_results(pdf_employees, matched_by_cedula,
                                               ret[1], ret[2])
    /\ pc' = "Done"
    /\ UNCHANGED <<dataframe, column_mapping, min_name_similarity, pdf_employees,
                   matched_by_cedula, remaining_after_cedula, consolidated>>
    /\ UNCHANGED <<excel_processor, top_n, suggestions>>
    /\ UNCHANGED fnVars
    /\ UNCHANGED pdfVars
    /\ UNCHANGED appVars

\* get_consolidated_data() after the run
GetConsolidatedData ==
    /\ pc = "Done"
    /\ consolidated' = get_consolidated_data(matched_employees)
    /\ pc' = "Consolidated"
    /\ UNCHANGED <<dataframe, column_mapping, min_name_similarity, pdf_employees,
                   matched_by_cedula, remaining_after_cedula, matched_by_name,
                   matched_employees, unmatched_employees, results>>
    /\ UNCHANGED <<excel_processor, top_n, suggestions, unmatched_by_name>>
    /\ UNCHANGED fnVars
    /\ UNCHANGED pdfVars
    /\ UNCHANGED appVars

\* match_by_cedula(batch) called by itself, on records of the caller
CallMatchByCedula ==
    /\ pc = "Idle"
    /\ \E batch \in CallerBatches :
          /\ ~match_by_cedula_raises(batch, column_mapping)
          /\ pdf_employees' = batch
          /\ LET ret == match_by_cedula(batch, dataframe, column_mapping)
             IN  /\ matched_by_cedula' = ret[1]
                 /\ remaining_after_cedula' = ret[2]
    /\ pc' = "ReturnedByCedula"
    /\ UNCHANGED <<dataframe, column_mapping, min_name_similarity, matched_by_name,
                   matched_employees, unmatched_employees, results, consolidated>>
    /\ UNCHANGED <<excel_processor, top_n, suggestions, unmatched_by_name>>
    /\ UNCHANGED fnVars
    /\ UNCHANGED pdfVars
    /\ UNCHANGED appVars

(***************************************************************************)
(* A matcher used on its own: DataMatcher(None, None), or one with a       *)
(* registry of at most one row, called function by function                *)
(***************************************************************************)
StandaloneRegistries == {<<>>} \cup {<<row>> : row \in RowPool}
StandaloneNames == {<<>>, JuanPerezAccented, JuanPerezPlain}

InitStandalone ==
    /\ AppQuiet
    /\ PdfQuiet
    /\ fpc = "unused" /\ FnQuiet
    /\ excel_processor \in {"None", "ExcelProcessor"}
    /\ dataframe \in IF excel_processor = "None" THEN {<<>>}
                     ELSE StandaloneRegistries
    /\ column_mapping = [nombre |-> TRUE, cedula |-> TRUE, centro_costo |-> TRUE]
    /\ pc = "Idle"
    /\ min_name_similarity = <<7, 10>>
    /\ pdf_employees = <<>>
    /\ matched_by_cedula = <<>> /\ remaining_after_cedula = <<>>
    /\ matched_by_name = <<>> /\ unmatched_by_name = <<>>
    /\ matched_employees = <<>> /\ unmatched_employees = <<>>
    /\ results = <<>>
    /\ consolidated = <<>>
    /\ top_n = 0
    /\ suggestions = <<>>

\* match_by_name(batch, min) called by itself, on records of the caller
CallMatchByName ==
    /\ pc = "Idle"
    /\ \E batch \in CallerBatches, min \in Thresholds :
          /\ pdf_employees' = batch
          /\ min_name_similarity' = min
          /\ IF match_by_name_raises(excel_processor)
             THEN /\ pc' = "Raised"
                  /\ UNCHANGED <<matched_by_name, unmatched_by_name>>
             ELSE LET ret == match_by_name(batch, dataframe, column_mapping, min)
                  IN  /\ matched_by_name' = ret[1]
                      /\ unmatched_by_name' = ret[2]
                      /\ pc' = "ReturnedByName"
    /\ UNCHANGED <<dataframe, column_mapping, matched_by_cedula,
                   remaining_after_cedula, matched_employees,
                   unmatched_employees, results, consolidated>>
    /\ UNCHANGED <<excel_processor, top_n, suggestions>>
    /\ UNCHANGED fnVars
    /\ UNCHANGED pdfVars
    /\ UNCHANGED appVars

\* calculate_name_similarity(name1, name2) on the same matcher
CallSimilarity ==
    /\ pc = "Idle"
    /\ \E n1 \in StandaloneNames, n2 \in StandaloneNames :
          /\ name1' = n1 /\ name2' = n2
          /\ similarity12' = calculate_name_similarity(n1, n2)
    /\ pc' = "ReturnedSimilarity"
    /\ UNCHANGED <<fpc, text, normalized, renormalized, similarity21, name,
                   formatted, nombres_encontrados>>
    /\ UNCHANGED linkVarsButPc
    /\ UNCHANGED pdfVars
    /\ UNCHANGED appVars

NextStandalone == CallMatchByName \/ CallSimilarity

SpecStandalone == InitStandalone /\ [][NextStandalone]_vars

TopNs == 0..MaxTopN

\* suggest_manual_matches(top_n) after a run, the unmatched records of the
\* run being consumed
SuggestManualMatchesConsuming ==
    /\ pc = "Done"
    /\ \E n \in TopNs :
          /\ top_n' = n
          /\ suggestions' = suggest_manual_matches(unmatched_employees, dataframe,
                                                   column_mapping, n)
    /\ unmatched_employees' = <<>>
    /\ pc' = "Suggested"
    /\ UNCHANGED <<dataframe, column_mapping, min_name_similarity, pdf_employees,
                   matched_by_cedula, remaining_after_cedula, matched_by_name,
                   matched_employees, results, consolidated,
                   excel_processor, unmatched_by_name>>
    /\ UNCHANGED fnVars
    /\ UNCHANGED pdfVars
    /\ UNCHANGED appVars

\* suggest_manual_matches(top_n) after a run
SuggestManualMatches ==
    /\ pc = "Done"
    /\ \E n \in TopNs :
          /\ top_n' = n
          /\ suggestions' = suggest_manual_matches(unmatched_employees, dataframe,
                                                   column_mapping, n)
    /\ pc' = "Suggested"
    /\ UNCHANGED <<dataframe, column_mapping, min_name_similarity, pdf_employees,
                   matched_by_cedula, remaining_after_cedula, matched_by_name,
                   matched_employees, unmatched_employees, results, consolidated,
                   excel_processor, unmatched_by_name>>
    /\ UNCHANGED fnVars
    /\ UNCHANGED pdfVars
    /\ UNCHANGED appVars

Next ==
    \/ Extract
    \/ IdPass
    \/ IdPassRaises
    \/ NamePass
    \/ GetConsolidatedData
    \/ CallMatchByCedula
    \/ SuggestManualMatches

Spec == Init /\ [][Next]_vars

(***************************************************************************)
(* PDFExtractor (src/src/pdf_extractor.py).                                *)
(*                                                                         *)
(* pdf_extractor.py holds each accented letter of its patterns and of its  *)
(* excluded words as two characters, the square root sign and a second     *)
(* sign: the word written for "Cedula" with an accented e is C, square     *)
(* root, copyright sign, d, u, l, a.  The patterns therefore know these    *)
(* signs and know no accented letter.  The signs are written here with the *)
(* marks below.                                                            *)
(***************************************************************************)
Radical == "v/"
CopyrightSign == "(c)"
IntegralSign == "S/"
GreaterEqualSign == ">="

AsciiUpper == {UpperLetters[i] : i \in 1..26}
AsciiLower == {LowerLetters[i] : i \in 1..26}

\* the class \d
IsDigit(c) == c \in Digits

\* the character that follows offset p of s; none before or after the text
CharAt(s, p) == IF p >= 0 /\ p < Len(s) THEN s[p + 1] ELSE ""

\* \b at offset p
WordBoundary(s, p) == IsWord(CharAt(s, p - 1)) # IsWord(CharAt(s, p))

\* the offset after the longest run of \s from offset p
RECURSIVE SpaceRunEnd(_, _)
SpaceRunEnd(s, p) == IF IsSpace(CharAt(s, p)) THEN SpaceRunEnd(s, p + 1) ELSE p

\* the offset after the longest run of \d from offset p
RECURSIVE DigitRunEnd(_, _)
DigitRunEnd(s, p) == IF IsDigit(CharAt(s, p)) THEN DigitRunEnd(s, p + 1) ELSE p

\* the offset after the longest run of [:\s] from offset p
RECURSIVE ColonSpaceRunEnd(_, _)
ColonSpaceRunEnd(s, p) ==
    IF IsSpace(CharAt(s, p)) \/ CharAt(s, p) = ":"
    THEN ColonSpaceRunEnd(s, p + 1) ELSE p

\* a literal of a pattern compiled with re.IGNORECASE, at offset p
StartsWithIgnoreCase(s, p, literal) ==
    /\ p + Len(literal) <= Len(s)
    /\ \A t \in 1..Len(literal) : LowerChar(s[p + t]) = LowerChar(literal[t])

\* a literal of a pattern compiled with re.IGNORECASE, anywhere in s
ContainsIgnoreCase(s, literal) ==
    \E p \in 0..(Len(s) - Len(literal)) : StartsWithIgnoreCase(s, p, literal)

\* str.split('\n'): the texts between the newlines, the empty ones too
SplitLines(s) ==
    LET newlines == {i \in DOMAIN s : s[i] = "\n"}
        \* the index of the k-th newline; 0 and Len(s) + 1 bound the text
        newline(k) ==
            IF k = 0 THEN 0
            ELSE IF k > Cardinality(newlines) THEN Len(s) + 1
            ELSE CHOOSE i \in newlines :
                     Cardinality({j \in newlines : j <= i}) = k
    IN  [k \in 1..(Cardinality(newlines) + 1) |->
            SubSeq(s, newline(k - 1) + 1, newline(k) - 1)] \o <<>>

\* list(dict.fromkeys(list)): the first occurrence of each value, in order
RECURSIVE Unique(_)
Unique(list) ==
    IF list = <<>> THEN <<>>
    ELSE With(Unique(SubSeq(list, 1, Len(list) - 1)), LAMBDA front :
              IF list[Len(list)] \in Range(front) THEN front
              ELSE Append(front, list[Len(list)]))

\* ---- extract_text ------------------------------------------------------
\* lines 33-37: the text of the pages that have one, a newline after each
RECURSIVE extract_text(_)
extract_text(pages) ==
    IF pages = <<>> THEN <<>>
    ELSE IF pages[1] # <<>> THEN pages[1] \o <<"\n">> \o extract_text(Tail(pages))
    ELSE extract_text(Tail(pages))

\* ---- extract_employee_names --------------------------------------------
\* the words the patterns look for, as pdf_extractor.py writes them
LitNombre == <<"n","o","m","b","r","e">>
LitDel == <<"d","e","l">>
LitAfiliado == <<"a","f","i","l","i","a","d","o">>
LitCedulaSigns == <<"c", Radical, CopyrightSign, "d","u","l","a">>
LitCedula == <<"c","e","d","u","l","a">>
LitCC == <<"c",".","c">>
LitDocumento == <<"d","o","c","u","m","e","n","t","o">>
LitIdentificacionSigns ==
    <<"i","d","e","n","t","i","f","i","c","a","c","i", Radical,
      GreaterEqualSign, "n">>

\* the class [A-Z...] that opens a name, with re.IGNORECASE or without.
\* (Of the members of the class only the letters A-Z and the square root
\* sign are characters of the texts modelled.)
IsNameStart(c, ignorecase) ==
    \/ c \in AsciiUpper \cup {Radical}
    \/ ignorecase /\ c \in AsciiLower

\* the class [A-Za-z...\s] of the rest of a name
IsNameChar(c) ==
    c \in AsciiUpper \cup AsciiLower \cup SpaceChars
          \cup {Radical, CopyrightSign, IntegralSign, GreaterEqualSign}

\* pattern1, the lookahead (?=\n|C..dula|C\.C|Documento|$) at offset q
name_lookahead(s, q) ==
    \/ CharAt(s, q) = "\n"
    \/ StartsWithIgnoreCase(s, q, LitCedulaSigns)
    \/ StartsWithIgnoreCase(s, q, LitCC)
    \/ StartsWithIgnoreCase(s, q, LitDocumento)
    \/ q = Len(s)

\* pattern2, what follows the name: \s+C..dula\s+(\d+) from offset q; the
\* offset after it, -1 if it is not there
name_before_cedula_end(s, q) ==
    IF ~IsSpace(CharAt(s, q)) THEN -1
    ELSE LET q1 == SpaceRunEnd(s, q)
         IN  IF ~StartsWithIgnoreCase(s, q1, LitCedulaSigns) THEN -1
             ELSE LET q2 == q1 + Len(LitCedulaSigns)
                  IN  IF ~IsSpace(CharAt(s, q2)) THEN -1
                      ELSE LET q3 == SpaceRunEnd(s, q2)
                           IN  IF IsDigit(CharAt(s, q3))
                               THEN DigitRunEnd(s, q3) ELSE -1

\* line 89, what follows the name: \s+(?:c..dula|cedula|c\.c) from offset q
name_in_line_follows(s, q) ==
    /\ IsSpace(CharAt(s, q))
    /\ LET q1 == SpaceRunEnd(s, q)
       IN  \/ StartsWithIgnoreCase(s, q1, LitCedulaSigns)
           \/ StartsWithIgnoreCase(s, q1, LitCedula)
           \/ StartsWithIgnoreCase(s, q1, LitCC)

\* what has to follow the group of pattern k (1: pattern1, 2: pattern2,
\* 3: the pattern of line 89) at offset q
name_follows(k, s, q) ==
    CASE k = 1 -> name_lookahead(s, q)
      [] k = 2 -> name_before_cedula_end(s, q) >= 0
      [] k = 3 -> name_in_line_follows(s, q)

\* the lazy [A-Za-z...\s]+? : the least offset from q on at which the rest
\* of pattern k follows, everything before it being of the class; -1 if none
RECURSIVE name_lazy_end(_, _, _)
name_lazy_end(k, s, q) ==
    IF name_follows(k, s, q) THEN q
    ELSE IF IsNameChar(CharAt(s, q)) THEN name_lazy_end(k, s, q + 1)
    ELSE -1

\* the group ([A-Z...][A-Za-z...\s]+?) of pattern k from offset p: the
\* offset after it, -1 if none
name_group_end(k, s, p) ==
    IF IsNameStart(CharAt(s, p), TRUE) /\ IsNameChar(CharAt(s, p + 1))
    THEN name_lazy_end(k, s, p + 2) ELSE -1

\* pattern1 from offset p: <<start of the group, end of the group, end of
\* the match>>, <<>> if it does not match here
name_pattern1_at(s, p) ==
    IF ~StartsWithIgnoreCase(s, p, LitNombre) THEN <<>>
    ELSE With(SpaceRunEnd(s, p + Len(LitNombre)), LAMBDA q2 :
         IF q2 = p + Len(LitNombre) \/ ~StartsWithIgnoreCase(s, q2, LitDel)
         THEN <<>>
         ELSE With(SpaceRunEnd(s, q2 + Len(LitDel)), LAMBDA q4 :
              IF q4 = q2 + Len(LitDel) \/ ~StartsWithIgnoreCase(s, q4, LitAfiliado)
              THEN <<>>
              ELSE With(ColonSpaceRunEnd(s, q4 + Len(LitAfiliado)), LAMBDA q5 :
                   With(name_group_end(1, s, q5), LAMBDA e :
                        IF e < 0 THEN <<>> ELSE <<q5, e, e>>))))

\* pattern2 from offset p
name_pattern2_at(s, p) ==
    With(name_group_end(2, s, p), LAMBDA e :
         IF e < 0 THEN <<>> ELSE <<p, e, name_before_cedula_end(s, e)>>)

name_pattern_at(k, s, p) ==
    IF k = 1 THEN name_pattern1_at(s, p) ELSE name_pattern2_at(s, p)

\* re.findall(pattern k, s): the groups of the matches from offset p on,
\* each match the leftmost one from where the match before ended
RECURSIVE name_findall(_, _, _)
name_findall(k, s, p) ==
    With({q \in p..(Len(s) - 1) : name_pattern_at(k, s, q) # <<>>},
         LAMBDA starts :
            IF starts = {} THEN <<>>
            ELSE With(name_pattern_at(k, s, Min(starts)),
                      LAMBDA m : <<SubSeq(s, m[1] + 1, m[2])>>
                                 \o name_findall(k, s, m[3])))

\* lines 62-65 and 72-75: the stripped matches of more than 3 characters
names_of_matches(matches) ==
    SelectSeq(MapSeq(matches, Strip), LAMBDA clean_name : Len(clean_name) > 3)

\* line 80: the line speaks of a cedula
is_cedula_line(line) ==
    \/ ContainsIgnoreCase(line, LitCedulaSigns)
    \/ ContainsIgnoreCase(line, LitCedula)
    \/ ContainsIgnoreCase(line, LitCC)
    \/ ContainsIgnoreCase(line, LitDocumento)

\* lines 82-86: the line before, when it is a name and nothing else (the
\* pattern of line 84 is compiled without re.IGNORECASE)
name_of_prev_line(lines, i) ==
    IF i = 1 THEN <<>>
    ELSE LET prev_line == Strip(lines[i - 1])
         IN  IF /\ Len(prev_line) > 3
                /\ IsNameStart(prev_line[1], FALSE)
                /\ \A t \in 2..Len(prev_line) : IsNameChar(prev_line[t])
             THEN <<prev_line>> ELSE <<>>

\* lines 89-91: the name that opens the line, before the word cedula
name_in_line(line) ==
    LET e == name_group_end(3, line, 0)
    IN  IF e > 3 THEN <<Strip(SubSeq(line, 1, e))>> ELSE <<>>

\* lines 78-91
RECURSIVE names_near_cedulas(_, _)
names_near_cedulas(lines, i) ==
    IF i > Len(lines) THEN <<>>
    ELSE (IF is_cedula_line(lines[i])
          THEN name_of_prev_line(lines, i) \o name_in_line(lines[i])
          ELSE <<>>) \o names_near_cedulas(lines, i + 1)

\* excluded_words, upper-cased
excluded_words ==
    {<<"F","A","C","T","U","R","A">>, <<"E","M","P","R","E","S","A">>,
     <<"C","L","I","E","N","T","E">>, <<"T","O","T","A","L">>,
     <<"F","E","C","H","A">>,
     <<"N", Radical, IntegralSign, "M","E","R","O">>,
     <<"D","E","S","C","R","I","P","C","I", Radical, GreaterEqualSign, "N">>,
     <<"C","A","N","T","I","D","A","D">>, <<"P","R","E","C","I","O">>,
     <<"V","A","L","O","R">>, <<"D","E","S","C","U","E","N","T","O">>,
     <<"I","M","P","U","E","S","T","O">>, <<"B","A","S","E">>,
     <<"T","A","R","I","F","A">>,
     <<"C", Radical, GreaterEqualSign, "D","I","G","O">>,
     <<"P","R","O","D","U","C","T","O">>, <<"S","E","R","V","I","C","I","O">>,
     <<"N","O","M","B","R","E">>, <<"A","F","I","L","I","A","D","O">>,
     <<"D","E","L">>,
     <<"C", Radical, CopyrightSign, "D","U","L","A">>,
     <<"D","O","C","U","M","E","N","T","O">>}

\* lines 100-105
is_employee_name(nm) ==
    /\ \A word \in excluded_words : ~Contains(Upper(nm), word)
    /\ Len(Split(nm)) >= 2 \/ Len(nm) > 10

extract_employee_names(content) ==
    LET names == names_of_matches(name_findall(1, content, 0))
                 \o names_of_matches(name_findall(2, content, 0))
                 \o names_near_cedulas(SplitLines(content), 1)
        filtered_names == MapSeq(SelectSeq(names, is_employee_name), Strip)
    IN  Unique(filtered_names)

\* ---- extract_cedulas ---------------------------------------------------
\* (\d{7,10})\b from offset p: the offset after the digits, -1 if none
cedula_digits_end(s, p) ==
    LET e == DigitRunEnd(s, p)
    IN  IF e - p >= 7 /\ e - p <= 10 /\ WordBoundary(s, e) THEN e ELSE -1

\* \d{1,3}\.?\d{3}\.?\d{3}: the number of leading digits and which of the
\* two points are there, in the order the matcher tries them
DottedShapes ==
    <<<<3, 1, 1>>, <<3, 1, 0>>, <<3, 0, 1>>, <<3, 0, 0>>,
      <<2, 1, 1>>, <<2, 1, 0>>, <<2, 0, 1>>, <<2, 0, 0>>,
      <<1, 1, 1>>, <<1, 1, 0>>, <<1, 0, 1>>, <<1, 0, 0>>>>

\* \d{1,3}\.?\d{3}\.?\d{3}\b from offset p in one shape: the offset after it,
\* -1 if the text has not this shape
cedula_dotted_end(s, p, shape) ==
    LET p1 == p + shape[1]
        p2 == p1 + shape[2]
        p3 == p2 + 3 + shape[3]
        e == p3 + 3
    IN  IF /\ \A q \in p..(p1 - 1) : IsDigit(CharAt(s, q))
           /\ shape[2] = 1 => CharAt(s, p1) = "."
           /\ \A q \in p2..(p2 + 2) : IsDigit(CharAt(s, q))
           /\ shape[3] = 1 => CharAt(s, p2 + 3) = "."
           /\ \A q \in p3..(p3 + 2) : IsDigit(CharAt(s, q))
           /\ WordBoundary(s, e)
        THEN e ELSE -1

\* \s*:?\s*(\d{7,10})\b from offset q: <<start of the group, end of the
\* group, end of the match>>, <<>> if it does not match
cedula_after_prefix(s, q) ==
    LET q1 == SpaceRunEnd(s, q)
        q2 == IF CharAt(s, q1) = ":" THEN q1 + 1 ELSE q1
        q3 == SpaceRunEnd(s, q2)
        e == cedula_digits_end(s, q3)
    IN  IF e < 0 THEN <<>> ELSE <<q3, e, e>>

\* C\.?C\.? from offset p: the offset after it, -1 if it is not there
cedula_cc_end(s, p) ==
    IF LowerChar(CharAt(s, p)) # "c" THEN -1
    ELSE LET q1 == IF CharAt(s, p + 1) = "." THEN p + 2 ELSE p + 1
         IN  IF LowerChar(CharAt(s, q1)) # "c" THEN -1
             ELSE IF CharAt(s, q1 + 1) = "." THEN q1 + 2 ELSE q1 + 1

\* cedula_patterns[k] from offset p: <<start of what findall returns, its
\* end, end of the match>>, <<>> if the pattern does not match here
cedula_pattern_at(k, s, p) ==
    IF ~WordBoundary(s, p) THEN <<>>
    ELSE CASE k = 1 ->
                LET e == cedula_digits_end(s, p)
                IN  IF e < 0 THEN <<>> ELSE <<p, e, e>>
           [] k = 2 ->
                LET ok == {n \in DOMAIN DottedShapes :
                              cedula_dotted_end(s, p, DottedShapes[n]) >= 0}
                IN  IF ok = {} THEN <<>>
                    ELSE LET e == cedula_dotted_end(s, p, DottedShapes[Min(ok)])
                         IN  <<p, e, e>>
           [] k = 3 ->
                LET q == cedula_cc_end(s, p)
                IN  IF q < 0 THEN <<>> ELSE cedula_after_prefix(s, q)
           [] k = 4 ->
                IF StartsWithIgnoreCase(s, p, LitCedulaSigns)
                THEN cedula_after_prefix(s, p + Len(LitCedulaSigns))
                ELSE <<>>
           [] k = 5 ->
                IF StartsWithIgnoreCase(s, p, LitIdentificacionSigns)
                THEN cedula_after_prefix(s, p + Len(LitIdentificacionSigns))
                ELSE <<>>

\* re.findall(cedula_patterns[k], s) from offset p on: each match the
\* leftmost one from where the match before ended
RECURSIVE cedula_findall(_, _, _)
cedula_findall(k, s, p) ==
    With({q \in p..(Len(s) - 1) : cedula_pattern_at(k, s, q) # <<>>},
         LAMBDA starts :
            IF starts = {} THEN <<>>
            ELSE With(cedula_pattern_at(k, s, Min(starts)),
                      LAMBDA m : <<SubSeq(s, m[1] + 1, m[2])>>
                                 \o cedula_findall(k, s, m[3])))

\* line 148: re.sub(r'[^\d]', '', cedula)
only_digits(cedula) == SelectSeq(cedula, IsDigit)

\* lines 134-151: the matches of the five patterns, cleaned and validated
cleaned_cedulas(content) ==
    LET cedulas == cedula_findall(1, content, 0)
                   \o cedula_findall(2, content, 0)
                   \o cedula_findall(3, content, 0)
                   \o cedula_findall(4, content, 0)
                   \o cedula_findall(5, content, 0)
    IN  SelectSeq(MapSeq(cedulas, only_digits),
                  LAMBDA cleaned :
                      7 <= Len(cleaned) /\ Len(cleaned) <= 10)

\* extract_cedulas returning every cleaned match
extract_cedulas_repeated(content) == cleaned_cedulas(content)

extract_cedulas(content) == Unique(cleaned_cedulas(content))

\* ---- extract_employees_data --------------------------------------------
\* lines 183-188: names and cedulas in equal number, associated by position
associate_by_position(names, cedulas) ==
    [i \in DOMAIN names |-> PdfEmp(names[i], cedulas[i])] \o <<>>

\* lines 198-211, from the n-th pair of a line and a name on: a name not
\* used yet takes the first cedula not used yet that stands on a line
\* with it
RECURSIVE associate_by_line(_, _, _, _, _)
associate_by_line(text_lines, names, cedulas, n, so_far) ==
    IF n > Len(text_lines) * Len(names) THEN so_far
    ELSE LET line == text_lines[((n - 1) \div Len(names)) + 1]
             nm == names[((n - 1) % Len(names)) + 1]
             free == {c \in DOMAIN cedulas :
                         /\ Contains(line, cedulas[c])
                         /\ cedulas[c] \notin so_far.used_cedulas}
         IN  IF Contains(line, nm) /\ nm \notin so_far.used_names /\ free # {}
             THEN associate_by_line(text_lines, names, cedulas, n + 1,
                      [employees |-> Append(so_far.employees,
                                            PdfEmp(nm, cedulas[Min(free)])),
                       used_names |-> so_far.used_names \cup {nm},
                       used_cedulas |-> so_far.used_cedulas
                                            \cup {cedulas[Min(free)]}])
             ELSE associate_by_line(text_lines, names, cedulas, n + 1, so_far)

\* lines 194-221: association by line, then the cedulas left, without name
associate_by_proximity(content, names, cedulas) ==
    LET by_line == associate_by_line(SplitLines(content), names, cedulas, 1,
                       [employees |-> <<>>, used_names |-> {},
                        used_cedulas |-> {}])
        left == SelectSeq(cedulas, LAMBDA cedula : cedula \notin by_line.used_cedulas)
    IN  by_line.employees \o ([i \in DOMAIN left |-> PdfEmp(<<>>, left[i])] \o <<>>)

extract_employees_data(content) ==
    With(extract_employee_names(content), LAMBDA names :
    With(extract_cedulas(content), LAMBDA cedulas :
         IF Len(names) = Len(cedulas) THEN associate_by_position(names, cedulas)
         ELSE associate_by_proximity(content, names, cedulas)))

\* ---- a PDF is opened and read ------------------------------------------
\* what page.extract_text() gives for a page
\* a name, the word cedula without accent, the number
PageNameCedula ==
    <<"A","N","A"," ","V","E","G","A"," ","c","e","d","u","l","a"," ","1",
      "2","3","4","5","6","7","8">>
\* a name, C.C., the number written with points
PageNameCC ==
    <<"L","U","I","S"," ","D","I","A","Z"," ","C",".","C","."," ","1",".",
      "2","3","4",".","5","6","7">>
\* the name on the line above the number
PageNameAbove ==
    <<"A","N","A"," ","V","E","G","A","\n","C",".","C",":"," ","1","2","3",
      "4","5","6","7","8","9","0">>
\* numbers and no name
PageNumbers ==
    <<"7","6","5","4","3","2","1"," ","1","2",".","3","4","5",".","6","7",
      "8">>
\* the word cedula as pdf_extractor.py writes it
PageCedulaSigns ==
    <<"J","O","S","E"," ","L","U","I","S"," ","C",Radical,CopyrightSign,"d","u","l",
      "a"," ","7","6","5","4","3","2","1">>
\* the name after "Nombre del afiliado"
PageAfiliado ==
    <<"N","o","m","b","r","e"," ","d","e","l"," ","a","f","i","l","i","a",
      "d","o",":"," ","A","N","A"," ","V","E","G","A","\n","C","C","1","2",
      "3","4","5","6","7">>
\* accented letters, as a PDF holds them
PageAccented ==
    <<"J","O","S","E'"," ","P","E'","R","E","Z"," ","C","e'","d","u","l",
      "a"," ","7","6","5","4","3","2","1">>
\* two names and three numbers, the numbers on one line
PageTwoNames ==
    <<"A","N","A"," ","V","E","G","A","\n","L","U","I","S"," ","D","I","A",
      "Z"," ","c","e","d","u","l","a"," ","1","2","3","4","5","6","7","8",
      " ","A","N","A"," ","V","E","G","A"," ","7","6","5","4","3","2","1",
      " ","1",".","2","3","4",".","5","6","7">>
\* a page without text
PageBlank == <<>>

PagePool ==
    {PageNameCedula, PageNameCC, PageNameAbove,
     PageNumbers, PageCedulaSigns, PageAfiliado,
     PageAccented, PageTwoNames,
     PageBlank}


InitExtract ==
    /\ AppQuiet
    /\ fpc = "unused" /\ FnQuiet
    /\ LinkQuiet
    /\ pdf_pc = "Opened"
    /\ pdf_pages \in SeqsUpTo(PagePool, MaxPages)
    /\ text_content = <<>>
    /\ employees_data = <<>>

\* extract_text()
ExtractText ==
    /\ pdf_pc = "Opened"
    /\ text_content' = extract_text(pdf_pages)
    /\ pdf_pc' = "TextExtracted"
    /\ UNCHANGED <<pdf_pages, employees_data>>
    /\ UNCHANGED <<fnVars, linkVars>>
    /\ UNCHANGED appVars

\* extract_employees_data(): extract_employee_names reads the text of the
\* PDF first when there is none yet (lines 53-54)
ExtractEmployeesData ==
    /\ pdf_pc \in {"Opened", "TextExtracted"}
    /\ text_content' = IF text_content = <<>> THEN extract_text(pdf_pages)
                       ELSE text_content
    /\ employees_data' = extract_employees_data(text_content')
    /\ pdf_pc' = "Extracted"
    /\ UNCHANGED pdf_pages
    /\ UNCHANGED <<fnVars, linkVars>>
    /\ UNCHANGED appVars

NextExtract == ExtractText \/ ExtractEmployeesData

SpecExtract == InitExtract /\ [][NextExtract]_vars

(***************************************************************************)
(* A matcher called again and again: perform_full_matching on the same     *)
(* DataMatcher, with collaborators that may be absent or may raise         *)
(***************************************************************************)
\* line 121: self.excel_processor.search_by_cedula is an AttributeError
\* when the matcher was built with None for the registry, at the first
\* record that has a cedula
registry_absent_raises(batch, ep) ==
    /\ ep = "None"
    /\ \E i \in DOMAIN batch : batch[i].cedula # <<>>

\* what the PDF collaborator of such a matcher hands over
RerunPool ==
    {PdfEmp(<<"A","b"," ","c">>, ID_1234567),
     PdfEmp(<<"a","b">>, <<>>),
     PdfEmp(<<>>, <<>>)}
RerunBatches == SeqsUpTo(RerunPool, MaxBatch)

InitRerun ==
    /\ PdfQuiet
    /\ fpc = "unused" /\ FnQuiet
    /\ pdf_extractor \in {"None", "PDFExtractor"}
    /\ main_pc = "Unused" /\ argv = <<>> /\ args = <<>> /\ exit_status = -1
    /\ process_button = "normal"
    /\ workers = <<>> /\ after_callbacks = <<>>
    /\ results_window = <<>>
    /\ excel_processor \in {"None", "ExcelProcessor"}
    /\ dataframe \in IF excel_processor = "None" THEN {<<>>}
                     ELSE StandaloneRegistries
    /\ column_mapping \in Mappings
    /\ pc = "Idle"
    /\ min_name_similarity = <<7, 10>>
    /\ pdf_employees = <<>>
    /\ matched_by_cedula = <<>> /\ remaining_after_cedula = <<>>
    /\ matched_by_name = <<>> /\ unmatched_by_name = <<>>
    /\ matched_employees = <<>> /\ unmatched_employees = <<>>
    /\ results = <<>>
    /\ consolidated = <<>>
    /\ top_n = 0
    /\ suggestions = <<>>

\* perform_full_matching(min) on a matcher that is not in a run; line 205
\* returns the records of the PDF
RunExtract ==
    /\ pc \in {"Idle", "Done", "Raised"}
    /\ pdf_extractor = "PDFExtractor"
    /\ \E min \in Thresholds : min_name_similarity' = min
    /\ \E batch \in RerunBatches : pdf_employees' = batch
    /\ pc' = "IDMatching"
    /\ UNCHANGED <<dataframe, column_mapping, matched_by_cedula,
                   remaining_after_cedula, matched_by_name, matched_employees,
                   unmatched_employees, results, consolidated>>
    /\ UNCHANGED <<excel_processor, top_n, suggestions, unmatched_by_name>>
    /\ UNCHANGED fnVars
    /\ UNCHANGED pdfVars
    /\ UNCHANGED appVars

\* line 205 raising: self.pdf_extractor is None, or extract_employees_data
\* raises (pdf_extractor.py: the file cannot be read)
RunExtractRaises ==
    /\ pc \in {"Idle", "Done", "Raised"}
    /\ \E min \in Thresholds : min_name_similarity' = min
    /\ pc' = "Raised"
    /\ UNCHANGED <<dataframe, column_mapping, pdf_employees, matched_by_cedula,
                   remaining_after_cedula, matched_by_name, matched_employees,
                   unmatched_employees, results, consolidated>>
    /\ UNCHANGED <<excel_processor, top_n, suggestions, unmatched_by_name>>
    /\ UNCHANGED fnVars
    /\ UNCHANGED pdfVars
    /\ UNCHANGED appVars

\* line 208 storing what the ID pass returned in the instance
RunIdPassStoring ==
    /\ pc = "IDMatching"
    /\ ~registry_absent_raises(pdf_employees, excel_processor)
    /\ ~match_by_cedula_raises(pdf_employees, column_mapping)
    /\ matched_by_cedula' = match_by_cedula(pdf_employees, dataframe,
                                            column_mapping)[1]
    /\ remaining_after_cedula' = match_by_cedula(pdf_employees, dataframe,
                                                 column_mapping)[2]
    /\ matched_employees' = matched_by_cedula'
    /\ unmatched_employees' = remaining_after_cedula'
    /\ pc' = "NameMatching"
    /\ UNCHANGED <<dataframe, column_mapping, min_name_similarity, pdf_employees,
                   matched_by_name, results, consolidated>>
    /\ UNCHANGED <<excel_processor, top_n, suggestions, unmatched_by_name>>
    /\ UNCHANGED fnVars
    /\ UNCHANGED pdfVars
    /\ UNCHANGED appVars

\* line 208: the ID pass
RunIdPass ==
    /\ ~registry_absent_raises(pdf_employees, excel_processor)
    /\ IdPass

\* line 208 raising, in search_by_cedula or for want of a registry
RunIdPassRaises ==
    /\ pc = "IDMatching"
    /\ \/ registry_absent_raises(pdf_employees, excel_processor)
       \/ match_by_cedula_raises(pdf_employees, column_mapping)
    /\ pc' = "Raised"
    /\ UNCHANGED linkVarsButPc
    /\ UNCHANGED fnVars
    /\ UNCHANGED pdfVars
    /\ UNCHANGED appVars

\* lines 211-236: the name pass, the lists stored and returned
RunNamePass ==
    /\ ~match_by_name_raises(excel_processor)
    /\ NamePass

\* line 211 raising for want of a registry
RunNamePassRaises ==
    /\ pc = "NameMatching"
    /\ match_by_name_raises(excel_processor)
    /\ pc' = "Raised"
    /\ UNCHANGED linkVarsButPc
    /\ UNCHANGED fnVars
    /\ UNCHANGED pdfVars
    /\ UNCHANGED appVars

NextRerun ==
    \/ RunExtract
    \/ RunExtractRaises
    \/ RunIdPass
    \/ RunIdPassRaises
    \/ RunNamePass
    \/ RunNamePassRaises

SpecRerun == InitRerun /\ [][NextRerun]_vars

(***************************************************************************)
(* The entry point: main() of src/main.py                                  *)
(*                                                                         *)
(* The float of --similarity is a fraction, or one of the three values     *)
(* float() also returns, written with the denominator 0.                   *)
(***************************************************************************)
float_nan     == <<0, 0>>
float_inf     == <<1, 0>>
float_neg_inf == <<-1, 0>>

\* x <= y on floats; a comparison with nan is false
float_le(x, y) ==
    IF x = float_nan \/ y = float_nan THEN FALSE
    ELSE IF x[2] = 0 THEN x[1] < 0 \/ y = x
    ELSE IF y[2] = 0 THEN y[1] > 0
    ELSE FLeq(x, y)

\* the test of main() with the upper limit left out
similarity_rejected_below_only(similarity) ==
    ~float_le(<<1, 2>>, similarity)

\* line 273: not 0.5 <= args.similarity <= 1.0
similarity_rejected(similarity) ==
    ~(float_le(<<1, 2>>, similarity) /\ float_le(similarity, <<1, 1>>))

SimilarityDefault == <<7, 10>>
SimilarityValues ==
    {<<-1, 1>>, <<0, 1>>, <<49, 100>>, <<1, 2>>, SimilarityDefault, <<1, 1>>,
     <<101, 100>>, <<2, 1>>, float_nan, float_inf, float_neg_inf}

\* a command line, as create_argument_parser reads it (lines 201-264):
\*   similarity   the float of --similarity, 0.7 when the option is absent
\*   cli          --cli PDF_FILE EXCEL_FILE is given, else the GUI is meant
\*   info         --help or --version is given
\*   usage_error  an option argparse refuses: --cli with one file, --cli
\*                together with --gui, an option it does not know
Argvs ==
    [similarity : SimilarityValues, cli : BOOLEAN, info : BOOLEAN,
     usage_error : BOOLEAN]

\* the PDF given to the program holds at most one record
MainBatches == SeqsUpTo(ExtractedPool, 1)

\* perform_full_matching(min) of a matcher whose collaborators do not raise
perform_full_matching(batch, df, mapping, min) ==
    With(match_by_cedula(batch, df, mapping), LAMBDA by_id :
    With(match_by_name(by_id[2], df, mapping, min), LAMBDA by_nm :
         [matched_by_cedula      |-> by_id[1],
          remaining_after_cedula |-> by_id[2],
          matched_by_name        |-> by_nm[1],
          unmatched              |-> by_nm[2],
          matched                |-> by_id[1] \o by_nm[1],
          results |-> full_matching_results(batch, by_id[1], by_nm[1],
                                            by_nm[2])]))

InitMain ==
    /\ PdfQuiet
    /\ fpc = "unused" /\ FnQuiet
    /\ pdf_extractor = "PDFExtractor"
    /\ main_pc = "start"
    /\ argv \in Argvs
    /\ args = <<>>
    /\ exit_status = -1
    /\ process_button = "normal"
    /\ workers = <<>> /\ after_callbacks = <<>>
    /\ results_window = <<>>
    /\ excel_processor = "ExcelProcessor"
    /\ dataframe \in StandaloneRegistries
    /\ column_mapping \in Mappings
    /\ pc = "Unused"
    /\ min_name_similarity = <<7, 10>>
    /\ pdf_employees = <<>>
    /\ matched_by_cedula = <<>> /\ remaining_after_cedula = <<>>
    /\ matched_by_name = <<>> /\ unmatched_by_name = <<>>
    /\ matched_employees = <<>> /\ unmatched_employees = <<>>
    /\ results = <<>>
    /\ consolidated = <<>>
    /\ top_n = 0
    /\ suggestions = <<>>

\* line 270, parse_args() ending the process: status 0 after the help or
\* the version text, status 2 after a usage error; with both on the
\* command line, whichever comes first
ParseArgsExits ==
    /\ main_pc = "start"
    /\ argv.info \/ argv.usage_error
    /\ exit_status' \in {st \in {0, 2} : \/ st = 0 /\ argv.info
                                         \/ st = 2 /\ argv.usage_error}
    /\ main_pc' = "exited"
    /\ UNCHANGED <<pdf_extractor, argv, args, process_button,
                   workers, after_callbacks, results_window>>
    /\ UNCHANGED <<fnVars, linkVars, pdfVars>>

\* line 270, parse_args() returning the namespace
ParseArgs ==
    /\ main_pc = "start"
    /\ ~argv.info /\ ~argv.usage_error
    /\ args' = [similarity |-> argv.similarity, cli |-> argv.cli]
    /\ main_pc' = "parsed"
    /\ UNCHANGED <<pdf_extractor, argv, exit_status, process_button,
                   workers, after_callbacks, results_window>>
    /\ UNCHANGED <<fnVars, linkVars, pdfVars>>

\* lines 273-275
CheckSimilarity ==
    /\ main_pc = "parsed"
    /\ IF similarity_rejected(args.similarity)
       THEN main_pc' = "exited" /\ exit_status' = 1
       ELSE main_pc' = "checked" /\ UNCHANGED exit_status
    /\ UNCHANGED <<pdf_extractor, argv, args, process_button,
                   workers, after_callbacks, results_window>>
    /\ UNCHANGED <<fnVars, linkVars, pdfVars>>

\* lines 278-291: the CLIProcessor is built and validate_inputs() looks
\* for the two files and the output directory
CliValidateInputs ==
    /\ main_pc = "checked"
    /\ args.cli
    /\ \E valid \in BOOLEAN :
          IF valid THEN main_pc' = "validated" /\ UNCHANGED exit_status
          ELSE main_pc' = "exited" /\ exit_status' = 1
    /\ UNCHANGED <<pdf_extractor, argv, args, process_button,
                   workers, after_callbacks, results_window>>
    /\ UNCHANGED <<fnVars, linkVars, pdfVars>>

\* lines 293-294, process(): the PDF and the sheet are read (lines 108-122)
\* or one of them cannot be, and the run ends there with status 1; then
\* perform_full_matching(self.similarity_threshold), the consolidated data,
\* the PDF written or not, the suggestions for the unmatched records
CliProcess ==
    /\ main_pc = "validated"
    /\ \E batch \in MainBatches, read \in BOOLEAN, generated \in BOOLEAN :
          IF ~read
          THEN /\ exit_status' = 1
               /\ UNCHANGED <<pc, min_name_similarity, pdf_employees,
                              matched_by_cedula, remaining_after_cedula,
                              matched_by_name, unmatched_by_name,
                              matched_employees, unmatched_employees,
                              results, consolidated, top_n, suggestions>>
          ELSE
          /\ min_name_similarity' = args.similarity
          /\ pdf_employees' = batch
          /\ IF match_by_cedula_raises(batch, column_mapping)
             THEN /\ pc' = "Raised"
                  /\ exit_status' = 1
                  /\ UNCHANGED <<matched_by_cedula, remaining_after_cedula,
                                 matched_by_name, unmatched_by_name,
                                 matched_employees, unmatched_employees,
                                 results, consolidated, top_n, suggestions>>
             ELSE /\ LET ret == match_by_cedula(batch, dataframe, column_mapping)
                     IN  /\ matched_by_cedula' = ret[1]
                         /\ remaining_after_cedula' = ret[2]
                  /\ LET ret == match_by_name(remaining_after_cedula', dataframe,
                                              column_mapping, args.similarity)
                     IN  /\ matched_by_name' = ret[1]
                         /\ unmatched_by_name' = ret[2]
                  /\ matched_employees' = matched_by_cedula' \o matched_by_name'
                  /\ unmatched_employees' = unmatched_by_name'
                  /\ results' = full_matching_results(
                                    batch, matched_by_cedula', matched_by_name',
                                    unmatched_by_name')
                  /\ consolidated' = get_consolidated_data(matched_employees')
                  /\ IF generated /\ unmatched_employees' # <<>>
                     THEN /\ top_n' = 1
                          /\ suggestions' = suggest_manual_matches(
                                unmatched_employees', dataframe, column_mapping, 1)
                          /\ pc' = "Suggested"
                     ELSE /\ UNCHANGED <<top_n, suggestions>>
                          /\ pc' = "Consolidated"
                  /\ exit_status' = IF generated THEN 0 ELSE 1
    /\ main_pc' = "exited"
    /\ UNCHANGED <<dataframe, column_mapping, excel_processor>>
    /\ UNCHANGED <<pdf_extractor, argv, args, process_button,
                   workers, after_callbacks, results_window>>
    /\ UNCHANGED <<fnVars, pdfVars>>

\* lines 296-306: the window is built and its main loop runs, or building
\* it raises
StartGui ==
    /\ main_pc = "checked"
    /\ ~args.cli
    /\ \E built \in BOOLEAN :
          IF built THEN main_pc' = "mainloop" /\ UNCHANGED exit_status
          ELSE main_pc' = "exited" /\ exit_status' = 1
    /\ UNCHANGED <<pdf_extractor, argv, args, process_button,
                   workers, after_callbacks, results_window>>
    /\ UNCHANGED <<fnVars, linkVars, pdfVars>>

\* the window is closed: app.run() and main() return
GuiReturns ==
    /\ main_pc = "mainloop"
    /\ main_pc' = "exited" /\ exit_status' = 0
    /\ UNCHANGED <<pdf_extractor, argv, args, process_button,
                   workers, after_callbacks, results_window>>
    /\ UNCHANGED <<fnVars, linkVars, pdfVars>>

NextMain ==
    \/ ParseArgsExits
    \/ ParseArgs
    \/ CheckSimilarity
    \/ CliValidateInputs
    \/ CliProcess
    \/ StartGui
    \/ GuiReturns

SpecMain == InitMain /\ [][NextMain]_vars

(***************************************************************************)
(* The window: MainApplication and ResultsWindow of src/src/ui.py          *)
(*                                                                         *)
(* The main thread runs the Tk main loop: it calls process_files when the  *)
(* process button is pressed and runs the callbacks given to root.after.   *)
(* Each run of the pipeline is a thread of its own, _process_files_thread. *)
(***************************************************************************)
Workers == 1..MaxWorkers

NoWorker == [pc |-> "unstarted", outcome |-> "none", matching_results |-> <<>>]

\* dict.get(key, default)
dict_get(d, key, default) == IF key \in DOMAIN d THEN d[key] ELSE default

\* show_results, lines 1684-1686: the two paths are added to the dictionary
\* perform_full_matching returned
show_results_dict(matching_results) ==
    [key \in DOMAIN matching_results \cup {"output_file", "output_directory"} |->
        IF key \in DOMAIN matching_results THEN matching_results[key]
        ELSE "path"]

\* a row of the tree of the matched tab, lines 634-642
matched_tab_row(emp) ==
    <<emp.nombre_excel, emp.cedula, emp.centro_costo, emp.match_method,
      Hundredths(emp.confidence)>>

\* a row of the tree of the unmatched tab, lines 716-720
unmatched_tab_row(emp) == <<emp.nombre, emp.cedula>>

\* ResultsWindow(parent, results): the number in the title of the matched
\* tab (line 416), its rows (634), and the same of the unmatched tab (656,
\* 716), the tree of which is built only for a list that is not empty (659)
ResultsWindow(res) ==
    [results         |-> res,
     matched_count   |-> Len(dict_get(res, "matched_employees", <<>>)),
     matched_rows    |-> MapSeq(dict_get(res, "matched_employees", <<>>),
                                matched_tab_row),
     unmatched_count |-> Len(dict_get(res, "unmatched_employees", <<>>)),
     unmatched_rows  |-> MapSeq(dict_get(res, "unmatched_employees", <<>>),
                                unmatched_tab_row)]

\* how a run of the pipeline goes, apart from the matching itself
GuiOutcomes == {"read_error", "generate_error", "window_error", "success"}

InitGui ==
    /\ PdfQuiet
    /\ fpc = "unused" /\ FnQuiet
    /\ pdf_extractor = "PDFExtractor"
    /\ main_pc = "mainloop"
    /\ argv = <<>> /\ args = <<>>
    /\ exit_status = -1
    /\ process_button = "normal"
    /\ workers = [w \in Workers |-> NoWorker]
    /\ after_callbacks = <<>>
    /\ results_window = <<>>
    /\ excel_processor = "ExcelProcessor"
    /\ dataframe \in StandaloneRegistries
    /\ column_mapping \in Mappings
    /\ pc = "Unused"
    /\ min_name_similarity = <<7, 10>>
    /\ pdf_employees = <<>>
    /\ matched_by_cedula = <<>> /\ remaining_after_cedula = <<>>
    /\ matched_by_name = <<>> /\ unmatched_by_name = <<>>
    /\ matched_employees = <<>> /\ unmatched_employees = <<>>
    /\ results = <<>>
    /\ consolidated = <<>>
    /\ top_n = 0
    /\ suggestions = <<>>

\* process_files leaving the button as it is
ProcessFilesButtonLeftNormal ==
    /\ main_pc = "mainloop"
    /\ process_button = "normal"
    /\ \E valid \in BOOLEAN :
          IF valid
          THEN /\ \E w \in Workers :
                     /\ workers[w].pc \in {"unstarted", "finished"}
                     /\ workers' = [workers EXCEPT ![w] =
                                       [NoWorker EXCEPT !.pc = "started"]]
               /\ UNCHANGED process_button
          ELSE UNCHANGED <<process_button, workers>>
    /\ UNCHANGED <<pdf_extractor, main_pc, argv, args, exit_status,
                   after_callbacks, results_window>>
    /\ UNCHANGED <<fnVars, linkVars, pdfVars>>

\* the process button is pressed: Tk calls process_files (lines 1578-1588)
\* for a button that is not disabled.  validate_inputs shows an error box
\* and, the box dismissed, the call returns with nothing changed; or the
\* button is disabled and the thread started.
ProcessFiles ==
    /\ main_pc = "mainloop"
    /\ process_button = "normal"
    /\ \E valid \in BOOLEAN :
          IF valid
          THEN /\ process_button' = "disabled"
               /\ \E w \in Workers :
                     /\ workers[w].pc \in {"unstarted", "finished"}
                     /\ workers' = [workers EXCEPT ![w] =
                                       [NoWorker EXCEPT !.pc = "started"]]
          ELSE UNCHANGED <<process_button, workers>>
    /\ UNCHANGED <<pdf_extractor, main_pc, argv, args, exit_status,
                   after_callbacks, results_window>>
    /\ UNCHANGED <<fnVars, linkVars, pdfVars>>

\* lines 1592-1600: the imports and the ProgressWindow; when one of them
\* raises, the outer handler shows the error box of line 1665
WorkerOpensProgress(w) ==
    /\ workers[w].pc = "started"
    /\ \E opened \in BOOLEAN :
          workers' = [workers EXCEPT ![w] =
                         IF opened THEN [@ EXCEPT !.pc = "pipeline"]
                         ELSE [@ EXCEPT !.pc = "dialog", !.outcome = "critical"]]
    /\ UNCHANGED <<pdf_extractor, main_pc, argv, args, exit_status,
                   process_button, after_callbacks, results_window>>
    /\ UNCHANGED <<fnVars, linkVars, pdfVars>>

\* lines 1602-1662, up to the message box that ends the run:
\*   the PDF or the sheet cannot be read, the matching raises or the final
\*   PDF cannot be written: the progress window is closed and the error
\*   box of line 1662 is shown;
\*   the ResultsWindow cannot be built: closing the progress window a
\*   second time raises as well, and the error box of line 1665 is shown;
\*   else show_results builds the ResultsWindow on what
\*   perform_full_matching(0.7) returned and shows the box of line 1702
WorkerRunsPipeline(w) ==
    /\ workers[w].pc = "pipeline"
    /\ \E batch \in MainBatches, outcome \in GuiOutcomes :
          IF \/ outcome \in {"read_error", "generate_error"}
             \/ match_by_cedula_raises(batch, column_mapping)
          THEN /\ workers' = [workers EXCEPT ![w] =
                                 [@ EXCEPT !.pc = "dialog", !.outcome = "error"]]
               /\ UNCHANGED results_window
          ELSE IF outcome = "window_error"
          THEN /\ workers' = [workers EXCEPT ![w] =
                                 [@ EXCEPT !.pc = "dialog", !.outcome = "critical"]]
               /\ UNCHANGED results_window
          ELSE /\ workers' = [workers EXCEPT ![w] =
                    [pc |-> "dialog", outcome |-> "success",
                     matching_results |->
                        perform_full_matching(batch, dataframe, column_mapping,
                                              <<7, 10>>).results]]
               /\ results_window' =
                     ResultsWindow(show_results_dict(workers'[w].matching_results))
    /\ UNCHANGED <<pdf_extractor, main_pc, argv, args, exit_status,
                   process_button, after_callbacks>>
    /\ UNCHANGED <<fnVars, linkVars, pdfVars>>

\* the message box the thread waits on is dismissed
WorkerDialogDismissed(w) ==
    /\ workers[w].pc = "dialog"
    /\ workers' = [workers EXCEPT ![w].pc = "finally"]
    /\ UNCHANGED <<pdf_extractor, main_pc, argv, args, exit_status,
                   process_button, after_callbacks, results_window>>
    /\ UNCHANGED <<fnVars, linkVars, pdfVars>>

\* the end of the thread asking for the reset after a success only
WorkerFinallyAfterSuccessOnly(w) ==
    /\ workers[w].pc = "finally"
    /\ after_callbacks' = IF workers[w].outcome = "success"
                          THEN Append(after_callbacks, "_reset_process_button")
                          ELSE after_callbacks
    /\ workers' = [workers EXCEPT ![w] =
                       [NoWorker EXCEPT !.pc = "finished",
                                        !.outcome = workers[w].outcome]]
    /\ UNCHANGED <<pdf_extractor, main_pc, argv, args, exit_status,
                   process_button, results_window>>
    /\ UNCHANGED <<fnVars, linkVars, pdfVars>>

\* lines 1666-1668, the finally clause: root.after(0,
\* self._reset_process_button), and the thread ends
WorkerFinally(w) ==
    /\ workers[w].pc = "finally"
    /\ after_callbacks' = Append(after_callbacks, "_reset_process_button")
    /\ workers' = [workers EXCEPT ![w] =
                       [NoWorker EXCEPT !.pc = "finished",
                                        !.outcome = workers[w].outcome]]
    /\ UNCHANGED <<pdf_extractor, main_pc, argv, args, exit_status,
                   process_button, results_window>>
    /\ UNCHANGED <<fnVars, linkVars, pdfVars>>

\* the main loop runs the callback: _reset_process_button, lines 1670-1673
ResetProcessButton ==
    /\ main_pc = "mainloop"
    /\ after_callbacks # <<>>
    /\ Head(after_callbacks) = "_reset_process_button"
    /\ process_button' = "normal"
    /\ after_callbacks' = Tail(after_callbacks)
    /\ UNCHANGED <<pdf_extractor, main_pc, argv, args, exit_status,
                   workers, results_window>>
    /\ UNCHANGED <<fnVars, linkVars, pdfVars>>

WorkerStep(w) ==
    \/ WorkerOpensProgress(w)
    \/ WorkerRunsPipeline(w)
    \/ WorkerDialogDismissed(w)
    \/ WorkerFinally(w)

NextGui ==
    \/ ProcessFiles
    \/ \E w \in Workers : WorkerOpensProgress(w)
    \/ \E w \in Workers : WorkerRunsPipeline(w)
    \/ \E w \in Workers : WorkerDialogDismissed(w)
    \/ \E w \in Workers : WorkerFinally(w)
    \/ ResetProcessButton

SpecGui == InitGui /\ [][NextGui]_vars

\* the threads are scheduled, every message box is dismissed in the end and
\* the main loop keeps running its callbacks
SpecGuiLive ==
    /\ InitGui
    /\ [][NextGui]_vars
    /\ \A w \in Workers : WF_vars(WorkerStep(w))
    /\ WF_vars(ResetProcessButton)

(***************************************************************************)
(* C1: normalize_text is idempotent: normalizing an already normalized     *)
(* text returns it unchanged, for every input text (also one with a        *)
(* punctuation character between two spaces, such as "a - b").             *)
(***************************************************************************)
C1_NormalizeIdempotent ==
    fpc = "renormalized" => renormalized = normalized

(***************************************************************************)
(* C2: calculate_name_similarity is symmetric: the similarity of name1 to  *)
(* name2 equals the similarity of name2 to name1.                          *)
(***************************************************************************)
C2_SimilaritySymmetric ==
    fpc = "both" => similarity12 = similarity21

(***************************************************************************)
(* C3: format_name("GARCIALOPEZMARIAFERNANDA") returns                     *)
(* "Maria Fernanda Garcia Lopez".                                          *)
(***************************************************************************)
C3_FormatGarciaLopez ==
    (fpc = "formatted" /\ name = known_cases[2][1])
        => formatted = known_cases[2][2]


(***************************************************************************)
(* The registry as the matcher reads it, and what the claims say of it     *)
(***************************************************************************)
registry_records == get_all_employees(dataframe, column_mapping)

run_returned == pc \in {"Done", "Consolidated"}

MariaClaraTrujilloPerez ==
    <<"M","a","r","i","a"," ","C","l","a","r","a"," ",
      "T","r","u","j","i","l","l","o"," ","P","e","r","e","z">>

(***************************************************************************)
(* C4: with the registry holding the single record {cedula 12345678, name  *)
(* TRUJILLOPEREZMARIACLARA, cost centre VENTAS} and the PDF batch holding  *)
(* the single record {cedula 12345678, no name}, perform_full_matching     *)
(* followed by get_consolidated_data gives exactly one consolidated record,*)
(* named "Maria Clara Trujillo Perez", with that cedula and cost centre,   *)
(* matched by cedula with confidence 1.0, and nothing is left unmatched.   *)
(***************************************************************************)
C4_Scenario ==
    /\ registry_records = <<[nombre       |-> TRUJILLOPEREZMARIACLARA,
                             cedula       |-> ID_12345678,
                             centro_costo |-> VENTAS]>>
    /\ pdf_employees = <<PdfEmp(<<>>, ID_12345678)>>

C5_AfterMatchById == pc \in {"ReturnedByCedula", "NameMatching"}

\* the match results carrying the cedula c
C5_IdResults(c) ==
    {k \in DOMAIN matched_by_cedula : matched_by_cedula[k].cedula = c}

\* every record at a position of S has its own match result, by cedula and
\* with confidence 1.0, and is not in the remaining list
C5_OneResultEach(S) ==
    \A i \in S :
        LET c == pdf_employees[i].cedula
        IN  /\ Cardinality(C5_IdResults(c))
                 = Cardinality({j \in DOMAIN pdf_employees :
                                   pdf_employees[j].cedula = c})
            /\ \A k \in C5_IdResults(c) :
                  /\ matched_by_cedula[k].match_method = "cedula"
                  /\ matched_by_cedula[k].confidence = <<1, 1>>
            /\ \A j \in DOMAIN remaining_after_cedula :
                  remaining_after_cedula[j] # pdf_employees[i]

\* the positions of the records whose cleaned cedula is that of a registry
\* record
C5_SameCleanId ==
    {i \in DOMAIN pdf_employees :
        \E j \in DOMAIN registry_records :
            clean_cedula(pdf_employees[i].cedula)
                = clean_cedula(registry_records[j].cedula)}

\* the same, both cedulas being written (not the empty string)
C5_SameCleanIdWritten ==
    {i \in DOMAIN pdf_employees :
        /\ pdf_employees[i].cedula # <<>>
        /\ \E j \in DOMAIN registry_records :
              /\ registry_records[j].cedula # <<>>
              /\ clean_cedula(pdf_employees[i].cedula)
                    = clean_cedula(registry_records[j].cedula)}

\* C5 as claimed: for every PDF record s and every registry, if the cedula
\* of some registry record equals that of s once the non-digits are deleted
\* from both, match_by_cedula gives exactly one match result for s, by
\* cedula and with confidence 1.0, and s is not in the remaining list; also
\* when the cedula of s is empty or has no digit.
C5_MatchByIdEveryRecord ==
    C5_AfterMatchById => C5_OneResultEach(C5_SameCleanId)

\* C5 as amended: the same for every PDF record and registry record whose
\* cedulas are not the empty string (a cedula without digits included); a
\* PDF record with the empty cedula is never looked up and is placed in the
\* remaining list.
C5_MatchByIdWrittenIds ==
    C5_AfterMatchById =>
        /\ C5_OneResultEach(C5_SameCleanIdWritten)
        /\ \A i \in DOMAIN pdf_employees :
              pdf_employees[i].cedula = <<>> =>
                  \E j \in DOMAIN remaining_after_cedula :
                      remaining_after_cedula[j] = pdf_employees[i]

\* a record whose cedula has no digit and one written with punctuation
\* have both been matched
C5_Witness ==
    /\ pc = "ReturnedByCedula"
    /\ Len(pdf_employees) = 2
    /\ C5_SameCleanIdWritten = {1, 2}
    /\ clean_cedula(pdf_employees[1].cedula) = <<>>
    /\ pdf_employees[2].cedula # clean_cedula(pdf_employees[2].cedula)
    /\ Len(matched_by_cedula) = 2

(***************************************************************************)
(* C6: after every perform_full_matching run that returns, the statistics  *)
(* satisfy matched_by_cedula + matched_by_name = total_matched and         *)
(* total_matched + total_unmatched = the number of PDF records, the counts *)
(* being those of the matched and unmatched lists returned.                *)
(***************************************************************************)
C6_StatisticsAddUp ==
    run_returned =>
        LET st == results.statistics
            by(method) == {k \in DOMAIN results.matched :
                              results.matched[k].match_method = method}
        IN  /\ st.matched_by_cedula + st.matched_by_name = st.total_matched
            /\ st.total_matched + st.total_unmatched = Len(pdf_employees)
            /\ st.total_pdf_employees = Len(pdf_employees)
            /\ st.total_matched = Len(results.matched)
            /\ st.total_unmatched = Len(results.unmatched)
            /\ st.matched_by_cedula = Cardinality(by("cedula"))
            /\ st.matched_by_name = Cardinality(by("nombre"))

C6_Witness ==
    /\ pc = "Done"
    /\ results.statistics.matched_by_name = 1
    /\ results.statistics.total_unmatched = 1

(***************************************************************************)
(* C7: every match result placed in a matched list has confidence exactly  *)
(* 1.0 when its method is cedula, and a confidence between the threshold   *)
(* min_name_similarity and 1.0 (both included) when its method is nombre.  *)
(***************************************************************************)
C7_Placed ==
    Range(matched_by_cedula) \cup Range(matched_by_name)
        \cup Range(matched_employees)
        \cup (IF run_returned THEN Range(results.matched) ELSE {})

C7_ConfidenceBounds ==
    \A m \in C7_Placed :
        /\ m.match_method \in {"cedula", "nombre"}
        /\ m.match_method = "cedula" => m.confidence = <<1, 1>>
        /\ m.match_method = "nombre" =>
              /\ FLeq(min_name_similarity, m.confidence)
              /\ FLeq(m.confidence, <<1, 1>>)

C7_Witness ==
    /\ pc = "Done"
    /\ \E m \in Range(matched_employees) : m.match_method = "cedula"
    /\ \E m \in Range(matched_employees) :
          /\ m.match_method = "nombre"
          /\ FLess(min_name_similarity, m.confidence)
          /\ FLess(m.confidence, <<1, 1>>)

(***************************************************************************)
(* C8                                                                      *)
(***************************************************************************)
C8_Scores(nombre) ==
    {calculate_name_similarity(nombre, registry_records[j].nombre) :
        j \in DOMAIN registry_records}

\* the highest similarity of the name to a registry name
C8_Highest(nombre) ==
    CHOOSE x \in C8_Scores(nombre) : \A y \in C8_Scores(nombre) : FLeq(y, x)

\* the positions in the remaining list of the named records whose highest
\* similarity reaches the threshold
C8_ReachThreshold ==
    {i \in DOMAIN remaining_after_cedula :
        /\ remaining_after_cedula[i].nombre # <<>>
        /\ registry_records # <<>>
        /\ FLeq(min_name_similarity, C8_Highest(remaining_after_cedula[i].nombre))}

\* of those, the ones whose highest similarity is above 0
C8_ReachThresholdAboveZero ==
    {i \in C8_ReachThreshold :
        FLess(<<0, 1>>, C8_Highest(remaining_after_cedula[i].nombre))}

\* the records at the positions of S, and no other, have a match result by
\* name, whose confidence is the highest similarity; the others are the
\* unmatched list
C8_EmittedExactlyFor(S) ==
    /\ Len(matched_by_name) = Cardinality(S)
    /\ \A k \in DOMAIN matched_by_name :
          /\ matched_by_name[k].match_method = "nombre"
          /\ matched_by_name[k].confidence
                = C8_Highest(remaining_after_cedula[Ascending(S)[k]].nombre)
    /\ unmatched_employees
          = AtPositions(remaining_after_cedula,
                        (DOMAIN remaining_after_cedula) \ S)

\* C8 as claimed: in match_by_name a remaining record with a name gets a
\* match result by name if and only if the highest similarity of its name
\* to a registry name is at least min_name_similarity; every other record
\* (one without a name too) goes to the unmatched list.  For every
\* threshold, 0 with a best score of 0 included, and for an empty registry.
C8_NameMatchIffThreshold ==
    run_returned => C8_EmittedExactlyFor(C8_ReachThreshold)

\* C8 as amended: ... if and only if the highest similarity is above 0 and
\* at least min_name_similarity; with a best score of 0 the record goes to
\* the unmatched list whatever the threshold.
C8_NameMatchIffThresholdAboveZero ==
    run_returned => C8_EmittedExactlyFor(C8_ReachThresholdAboveZero)

\* at threshold 0 one named record was matched and another, whose best
\* score is 0, was not
C8_Witness ==
    /\ pc = "Done"
    /\ min_name_similarity = <<0, 1>>
    /\ matched_by_name # <<>>
    /\ \E i \in C8_ReachThreshold \ C8_ReachThresholdAboveZero :
          remaining_after_cedula[i] \in Range(unmatched_employees)

(***************************************************************************)
(* C9: in match_by_name, when several registry records reach the same      *)
(* highest similarity for a PDF record, the match result is built from the *)
(* first of them in the order of the registry: a later record replaces the *)
(* best one only with a strictly greater score.                            *)
(***************************************************************************)
\* the registry positions whose name reaches the highest similarity
C9_Tied(nombre) ==
    {j \in DOMAIN registry_records :
        /\ registry_records[j].nombre # <<>>
        /\ calculate_name_similarity(nombre, registry_records[j].nombre)
              = C8_Highest(nombre)}

\* the remaining record the k-th match result by name was made for
C9_SourceOf(k) ==
    remaining_after_cedula[Ascending(C8_ReachThresholdAboveZero)[k]]

C9_FirstSeenWinsTies ==
    run_returned =>
        \A k \in DOMAIN matched_by_name :
            /\ k <= Cardinality(C8_ReachThresholdAboveZero)
            /\ LET first == registry_records[Min(C9_Tied(C9_SourceOf(k).nombre))]
               IN  /\ matched_by_name[k].nombre_excel = first.nombre
                   /\ matched_by_name[k].cedula = first.cedula
                   /\ matched_by_name[k].centro_costo = first.centro_costo

\* a match result by name made where two different registry records tie
C9_Witness ==
    /\ pc = "Done"
    /\ \E k \in DOMAIN matched_by_name :
          \E j1, j2 \in C9_Tied(C9_SourceOf(k).nombre) :
              /\ j1 < j2
              /\ registry_records[j1].centro_costo
                    # registry_records[j2].centro_costo

(***************************************************************************)
(* C10: perform_full_matching is the sequence Idle -> IDMatching ->        *)
(* NameMatching -> Done.  The name pass begins only when the ID pass has   *)
(* gone through every PDF record; it receives exactly the records the ID   *)
(* pass did not match, in their order; and no PDF record gets both a match *)
(* result by cedula and one by name.                                       *)
(***************************************************************************)
\* the positions of the PDF records with a match result by cedula
C10_MatchedById ==
    {i \in DOMAIN pdf_employees :
        \E k \in DOMAIN matched_by_cedula :
            matched_by_cedula[k].cedula = pdf_employees[i].cedula}

C10_IdPassComplete ==
    /\ Len(matched_by_cedula) = Cardinality(C10_MatchedById)
    /\ remaining_after_cedula
          = AtPositions(pdf_employees, (DOMAIN pdf_employees) \ C10_MatchedById)

C10_NamePassOnRemainder ==
    /\ C10_IdPassComplete
    /\ Len(matched_by_name) + Len(unmatched_employees)
          = Len(remaining_after_cedula)
    /\ Range(unmatched_employees) \subseteq Range(remaining_after_cedula)
    /\ matched_employees = matched_by_cedula \o matched_by_name
    /\ Len(matched_employees) + Len(unmatched_employees) = Len(pdf_employees)

C10_TwoPassStep ==
    /\ pc' = "IDMatching" => pc = "Idle"
    /\ pc' = "NameMatching" =>
          /\ pc = "IDMatching"
          /\ pdf_employees' = pdf_employees
          /\ C10_IdPassComplete'
          /\ matched_by_name' = <<>> /\ unmatched_employees' = <<>>
    /\ pc' = "Done" =>
          /\ pc = "NameMatching"
          /\ pdf_employees' = pdf_employees
          /\ matched_by_cedula' = matched_by_cedula
          /\ remaining_after_cedula' = remaining_after_cedula
          /\ C10_NamePassOnRemainder'

C10_TwoPassSequence == [][C10_TwoPassStep]_vars

C10_Witness ==
    /\ pc = "Done"
    /\ Len(matched_by_cedula) = 1
    /\ Len(matched_by_name) = 1


(***************************************************************************)
(* C11: the name of every consolidated record is format_name of the        *)
(* nombre_excel of its match result (empty when that is empty) and never   *)
(* depends on the name of the PDF record: a run that differs only in the   *)
(* names of the records matched by cedula gives the same consolidated      *)
(* names.  A PDF record "Juan Perez" matched by name at threshold 0.7 to   *)
(* the registry's "Juan Pe'rez" is consolidated under the registry's name. *)
(***************************************************************************)
\* the consolidated names of a whole run on the batch, registry and
\* threshold being those of the state
C11_RunNames(batch) ==
    LET by_cedula == match_by_cedula(batch, dataframe, column_mapping)
        by_name   == match_by_name(by_cedula[2], dataframe, column_mapping,
                                   min_name_similarity)
    IN  MapSeq(get_consolidated_data(by_cedula[1] \o by_name[1]),
               LAMBDA emp : emp.nombre)

C11_OtherNames == {<<>>, <<"x","y"," ","w">>, JuanPerezPlain}

\* the batch with the names f gives at the positions f is defined on
C11_Renamed(batch, f) ==
    [i \in DOMAIN batch |->
        IF i \in DOMAIN f THEN PdfEmp(f[i], batch[i].cedula) ELSE batch[i]]

C11_NameFromRegistryOnly ==
    pc = "Consolidated" =>
        /\ Len(consolidated) = Len(matched_employees)
        /\ \A k \in DOMAIN consolidated :
              /\ consolidated[k].nombre
                    = IF matched_employees[k].nombre_excel = <<>> THEN <<>>
                      ELSE format_name(matched_employees[k].nombre_excel)
              /\ (/\ matched_employees[k].match_method = "nombre"
                  /\ matched_employees[k].nombre_excel = JuanPerezAccented)
                    => consolidated[k].nombre = JuanPerezAccented
        /\ \A f \in [C10_MatchedById -> C11_OtherNames] :
              C11_RunNames(C11_Renamed(pdf_employees, f))
                  = MapSeq(consolidated, LAMBDA emp : emp.nombre)

\* a record with a name of its own was matched by cedula, and "Juan Perez"
\* was matched by name at 0.7 to the registry's "Juan Pe'rez"
C11_Witness ==
    /\ pc = "Consolidated"
    /\ min_name_similarity = <<7, 10>>
    /\ \E i \in C10_MatchedById :
          /\ pdf_employees[i].nombre # <<>>
          /\ pdf_employees[i].nombre # matched_by_cedula[1].nombre_excel
    /\ \E i \in DOMAIN remaining_after_cedula :
          remaining_after_cedula[i].nombre = JuanPerezPlain
    /\ \E k \in DOMAIN consolidated :
          /\ matched_employees[k].match_method = "nombre"
          /\ consolidated[k].nombre = JuanPerezAccented


(***************************************************************************)
(* C12: get_consolidated_data returns exactly one consolidated record for  *)
(* each match result of the matched list, in the order of that list, and   *)
(* no record for a PDF record of the unmatched list.                       *)
(***************************************************************************)
C12_OnePerMatchInOrder ==
    pc = "Consolidated" =>
        /\ Len(consolidated) = Len(matched_employees)
        /\ \A k \in DOMAIN consolidated :
              /\ consolidated[k].cedula = matched_employees[k].cedula
              /\ consolidated[k].centro_costo = matched_employees[k].centro_costo
              /\ consolidated[k].estado_match
                    = IF matched_employees[k].match_method = "cedula"
                      THEN "Encontrado (cedula)" ELSE "Encontrado (nombre)"
        /\ Len(consolidated) + Len(unmatched_employees) = Len(pdf_employees)
        /\ \A k \in DOMAIN consolidated : \A j \in DOMAIN unmatched_employees :
              clean_cedula(consolidated[k].cedula)
                  # clean_cedula(unmatched_employees[j].cedula)

\* one record matched by name was consolidated, another was left unmatched
C12_Witness ==
    /\ pc = "Consolidated"
    /\ Len(consolidated) = 1
    /\ consolidated[1].estado_match = "Encontrado (nombre)"
    /\ Len(unmatched_employees) = 1


(***************************************************************************)
(* C13: every match result, by cedula or by name, keeps the name of the    *)
(* PDF record in a field of its own (nombre_pdf), apart from the registry  *)
(* name nombre_excel.                                                      *)
(***************************************************************************)
C13_SourceNameKept ==
    \A m \in C7_Placed :
        /\ "nombre_excel" \in DOMAIN m
        /\ "nombre_pdf" \in DOMAIN m


(***************************************************************************)
(* C14                                                                     *)
(***************************************************************************)
C14_MatchByNameCalled == pc \in {"Raised", "ReturnedByName"}

\* C14 as claimed: a matcher built with None for the registry runs
\* match_by_name on records handed to it without raising.
C14_NoRegistryTolerated ==
    (C14_MatchByNameCalled /\ excel_processor = "None") => pc # "Raised"

\* C14 as amended: a matcher built with None for the registry runs the
\* functions that do not read the registry (calculate_name_similarity)
\* without raising, but match_by_name reads the registry first and raises
\* for every list of records, the empty one too, returning nothing; with a
\* registry it returns.
C14_MatchByNameNeedsRegistry ==
    /\ C14_MatchByNameCalled =>
          /\ pc = "Raised" <=> excel_processor = "None"
          /\ pc = "Raised" => matched_by_name = <<>> /\ unmatched_by_name = <<>>
          /\ pc = "ReturnedByName" =>
                Len(matched_by_name) + Len(unmatched_by_name) = Len(pdf_employees)
    /\ pc = "ReturnedSimilarity" =>
          (similarity12 = <<1, 1>>
              <=> (name1 # <<>> /\ name2 # <<>>))

C14_Witness ==
    /\ pc = "Raised"
    /\ excel_processor = "None"
    /\ \E i \in DOMAIN pdf_employees : pdf_employees[i].nombre # <<>>


(***************************************************************************)
(* C15: suggest_manual_matches leaves the matched and the unmatched list   *)
(* of the matcher as they were, for every top_n: the same records in the   *)
(* same order after the call as before it.                                 *)
(***************************************************************************)
C15_SuggestStep ==
    pc' = "Suggested" =>
        /\ pc = "Done"
        /\ matched_employees' = matched_employees
        /\ unmatched_employees' = unmatched_employees

C15_SuggestKeepsPartitions == [][C15_SuggestStep]_vars

\* suggestions were returned while both lists hold a record
C15_Witness ==
    /\ pc = "Suggested"
    /\ matched_employees # <<>>
    /\ unmatched_employees # <<>>
    /\ DOMAIN suggestions # {}

(***************************************************************************)
(* C16: for each unmatched record with a name, suggest_manual_matches      *)
(* (top_n) returns at most top_n registry candidates, each more than 0.3   *)
(* similar to the name, the more similar first, and no registry record     *)
(* left out is more similar than one returned; an unmatched record with    *)
(* no candidate above 0.3, or without a name, gets no entry.               *)
(***************************************************************************)
C16_Similarity(nombre, nombre_excel) ==
    IF nombre_excel = <<>> THEN <<0, 1>>
    ELSE calculate_name_similarity(nombre, nombre_excel)

\* the registry positions whose name is more than 0.3 similar to nombre
C16_Above(nombre) ==
    {j \in DOMAIN registry_records :
        FLess(<<3, 10>>, C16_Similarity(nombre, registry_records[j].nombre))}

C16_Entry(nombre) ==
    IF nombre \in DOMAIN suggestions THEN suggestions[nombre] ELSE <<>>

C16_AsSuggestion(r) ==
    [nombre_excel |-> r.nombre, cedula_excel |-> r.cedula,
     centro_costo |-> r.centro_costo]

C16_TopCandidates ==
    pc = "Suggested" =>
        /\ \A i \in DOMAIN unmatched_employees :
              LET nombre == unmatched_employees[i].nombre
                  entry  == C16_Entry(nombre)
                  S(k)   == C16_Similarity(nombre, entry[k].nombre_excel)
                  listed == {[nombre_excel |-> entry[k].nombre_excel,
                              cedula_excel |-> entry[k].cedula_excel,
                              centro_costo |-> entry[k].centro_costo] :
                                k \in DOMAIN entry}
              IN  /\ nombre = <<>> => entry = <<>>
                  /\ Len(entry) <= top_n
                  /\ Len(entry) = Min({top_n, Cardinality(C16_Above(nombre))})
                  /\ \A k \in DOMAIN entry :
                        /\ FLess(<<3, 10>>, S(k))
                        /\ entry[k].similitud = Hundredths(S(k))
                        /\ \E j \in C16_Above(nombre) :
                              C16_AsSuggestion(registry_records[j])
                                  \in listed
                        /\ \A l \in DOMAIN entry : k < l => FLeq(S(l), S(k))
                  /\ \A j \in DOMAIN registry_records :
                        C16_AsSuggestion(registry_records[j]) \notin listed =>
                            \A k \in DOMAIN entry :
                                FLeq(C16_Similarity(nombre,
                                         registry_records[j].nombre), S(k))
        /\ \A nombre \in DOMAIN suggestions :
              /\ nombre # <<>>
              /\ suggestions[nombre] # <<>>
              /\ \E i \in DOMAIN unmatched_employees :
                    unmatched_employees[i].nombre = nombre

\* one candidate was returned and a less similar one, earlier in the
\* registry and also above 0.3, was left out
C16_Witness ==
    /\ pc = "Suggested"
    /\ top_n = 1
    /\ \E i \in DOMAIN unmatched_employees :
          LET nombre == unmatched_employees[i].nombre
          IN  /\ nombre \in DOMAIN suggestions
              /\ \E j1, j2 \in C16_Above(nombre) :
                    /\ j1 < j2
                    /\ FLess(C16_Similarity(nombre, registry_records[j1].nombre),
                             C16_Similarity(nombre, registry_records[j2].nombre))
                    /\ suggestions[nombre][1].nombre_excel
                          = registry_records[j2].nombre


(***************************************************************************)
(* C17: calculate_name_similarity is 1.0 for every two non-empty names     *)
(* whose normalized forms are equal: for a name and itself, and for names  *)
(* that differ only in case, accents, punctuation or surrounding and       *)
(* repeated whitespace.                                                    *)
(***************************************************************************)
\* the words of a name once case, accents and punctuation are taken away
C17_Words(n) == Split(RemoveSpecial(MapSeq(Lower(n), Unaccent)))

C17_SameName ==
    /\ name1 # <<>> /\ name2 # <<>>
    /\ \/ normalize_text(name1) = normalize_text(name2)
       \/ C17_Words(name1) = C17_Words(name2)

C17_EqualNormalizedIsOne ==
    C17_SameName =>
        /\ fpc \in {"forward", "both"} => similarity12 = <<1, 1>>
        /\ fpc = "both" => similarity21 = <<1, 1>>

\* two names that differ in punctuation and spaces only, whose normalized
\* forms are not the same text, and a pair that differs in case and accent
C17_Witness ==
    /\ fpc = "both"
    /\ C17_SameName
    /\ \/ normalize_text(name1) # normalize_text(name2)
       \/ (name1 = JuanPerezAccented /\ name2 = JuanPerezPlain)
    /\ similarity12 = <<1, 1>>


(***************************************************************************)
(* C18: for every name that contains a space, format_name only changes     *)
(* the case: the result is the words of the name (split at whitespace), in *)
(* their order, each with its first character in upper case and the rest   *)
(* in lower case, joined by single spaces; nothing is looked up in the     *)
(* dictionaries, reordered or cut.                                         *)
(***************************************************************************)
C18_Capitalized(word) ==
    [i \in DOMAIN word |-> IF i = 1 THEN UpperChar(word[1])
                           ELSE LowerChar(word[i])]

C18_SpacedIsCapitalized ==
    (fpc = "formatted" /\ " " \in Range(name)) =>
        /\ Len(Split(formatted)) = Len(Split(name))
        /\ \A k \in DOMAIN Split(name) :
              Split(formatted)[k] = C18_Capitalized(Split(name)[k])
        /\ \A i \in DOMAIN formatted :
              IsSpace(formatted[i]) =>
                  /\ formatted[i] = " "
                  /\ 1 < i /\ i < Len(formatted)
                  /\ formatted[i + 1] # " "

\* a surname before a given name, with more than one space around them
C18_Witness ==
    /\ fpc = "formatted"
    /\ Len(name) > Len(formatted)
    /\ Len(Split(name)) = 2
    /\ Upper(Split(name)[1]) = GARCIA
    /\ Upper(Split(name)[2]) = MARIA
    /\ Split(formatted)[1] = C18_Capitalized(GARCIA)


(***************************************************************************)
(* C19                                                                     *)
(***************************************************************************)
\* format_name has gone through the dictionaries for the name
C19_Scanned == fpc = "formatted" /\ name # <<>> /\ " " \notin Range(name)

C19_Original == Strip(Upper(name))

\* the text left when the surnames found have been blanked
C19_Restante == SurnameScan(apellidos_sorted, 1, {}, C19_Original)[2]

\* C19 as claimed: on a name without spaces a given name of the dictionary
\* is collected whenever it occurs in the original upper-case text,
\* whatever the surnames blanked, with its first index in the original
\* text as position (for VEGANANCY both ANA at 3 and NANCY at 4).
C19_CollectedFromOriginal ==
    C19_Scanned =>
        nombres_encontrados
            = {<<Find(C19_Original, nombres_comunes[n]), nombres_comunes[n]>> :
                  n \in {k \in DOMAIN nombres_comunes :
                            Contains(C19_Original, nombres_comunes[k])}}

\* C19 as amended: a given name of the dictionary is collected whenever it
\* occurs in the text left after the surnames found were blanked (ANA,
\* which lies across the end of VEGA in VEGANANCY, is not), and its
\* position is its first index in the original text, also when that first
\* occurrence was blanked.
C19_CollectedFromRestante ==
    C19_Scanned =>
        nombres_encontrados
            = {<<Find(C19_Original, nombres_comunes[n]), nombres_comunes[n]>> :
                  n \in {k \in DOMAIN nombres_comunes :
                            Contains(C19_Restante, nombres_comunes[k])}}

\* ANA was collected from behind NANCY, at the index of its blanked first
\* occurrence
C19_Witness ==
    /\ C19_Scanned
    /\ name = VEGANANCY \o ANA
    /\ nombres_encontrados = {<<3, ANA>>, <<4, <<"N","A","N","C","Y">>>>}

(***************************************************************************)
(* C20                                                                     *)
(***************************************************************************)
\* C20: every record extract_employees_data returns has a cedula of 7 to
\* 10 digits, and no two records of one batch have the same cedula,
\* whether the names and the cedulas were associated by position (as many
\* names as cedulas) or by line (otherwise).
C20_IdsValidAndDistinct ==
    pdf_pc = "Extracted" =>
        /\ \A i \in DOMAIN employees_data :
              /\ Len(employees_data[i].cedula) \in 7..10
              /\ Range(employees_data[i].cedula) \subseteq Digits
        /\ \A i, j \in DOMAIN employees_data :
              i # j => employees_data[i].cedula # employees_data[j].cedula

\* two names and three numbers: associated by line, each name with a
\* number of its own, the number left given no name; the numbers written
\* without points were found by two patterns each
C20_Witness ==
    /\ pdf_pc = "Extracted"
    /\ pdf_pages = <<PageTwoNames>>
    /\ Len(extract_employee_names(text_content)) = 2
    /\ Len(cleaned_cedulas(text_content)) = 5
    /\ employees_data
         = <<PdfEmp(<<"A","N","A"," ","V","E","G","A">>, ID_12345678),
             PdfEmp(<<"L","U","I","S"," ","D","I","A","Z">>, ID_7654321),
             PdfEmp(<<>>, ID_1234567)>>

(***************************************************************************)
(* C21: when several registry rows carry the cedula of a PDF record (the   *)
(* cedulas being equal once the non-digits are deleted from both),         *)
(* match_by_cedula gives one match result for that record and no more, and *)
(* its registry name and cost centre are those of the first such row in    *)
(* the order of the sheet.  The records meant are those match_by_cedula    *)
(* looks up, the ones whose cedula is not the empty string, and the rows   *)
(* are those whose cedula cell is filled.                                  *)
(***************************************************************************)
\* the rows of the sheet carrying the cedula, once both are cleaned
C21_RowsOf(cedula) ==
    {r \in DOMAIN dataframe :
        /\ notna(dataframe[r].cedula)
        /\ clean_cedula(dataframe[r].cedula) = clean_cedula(cedula)}

\* the positions of the PDF records that are looked up and have a row
C21_Hit ==
    {i \in DOMAIN pdf_employees :
        /\ pdf_employees[i].cedula # <<>>
        /\ C21_RowsOf(pdf_employees[i].cedula) # {}}

\* the positions of those that have several rows
C21_Duplicated ==
    {i \in C21_Hit : Cardinality(C21_RowsOf(pdf_employees[i].cedula)) >= 2}

\* the place, among the match results, of the result of the i-th record
C21_ResultOf(i) == Cardinality({j \in C21_Hit : j <= i})

C21_FirstHitWins ==
    C5_AfterMatchById =>
        /\ Len(matched_by_cedula) = Cardinality(C21_Hit)
        /\ \A i \in C21_Duplicated :
              LET first == Min(C21_RowsOf(pdf_employees[i].cedula))
                  result == matched_by_cedula[C21_ResultOf(i)]
              IN  /\ result.cedula = pdf_employees[i].cedula
                  /\ result.nombre_excel = registry_records[first].nombre
                  /\ result.centro_costo = registry_records[first].centro_costo
                  /\ result.match_method = "cedula"

\* two rows with the cedula 1234567, written differently and with different
\* names and cost centres; the result carries those of the row that is first
C21_Witness ==
    /\ pc = "ReturnedByCedula"
    /\ Len(dataframe) = 2
    /\ dataframe[1].cedula = <<"1",".","2","3","4",".","5","6","7">>
    /\ dataframe[2].cedula = ID_1234567
    /\ dataframe[1].centro_costo # dataframe[2].centro_costo
    /\ column_mapping.nombre /\ column_mapping.centro_costo
    /\ pdf_employees = <<PdfEmp(<<"A","b"," ","c">>, ID_1234567)>>
    /\ C21_Duplicated = {1}
    /\ matched_by_cedula = <<[nombre_excel |-> <<"a","b"," ","c">>,
                              cedula       |-> ID_1234567,
                              centro_costo |-> <<"A">>,
                              match_method |-> "cedula",
                              confidence   |-> <<1, 1>>]>>

(***************************************************************************)
(* C22: format_name on a name of more than 8 characters that holds no      *)
(* whitespace and for which the two scans did not both find something.     *)
(* With the name in upper case, mid its length divided by 2 and the        *)
(* characters counted from 0, the cut is i + 1 for the least i of          *)
(* mid-3..mid+3 such that character i is one of A, E, I, O, U and          *)
(* character i + 1 is not, and mid when there is no such i.  Both parts    *)
(* are non-empty and the result is name[cut:] capitalized, a space,        *)
(* name[:cut] capitalized: every character of the name is kept.            *)
(***************************************************************************)
C22_Vowels == {"A", "E", "I", "O", "U"}

\* the name was formatted, holds no whitespace and is longer than 8
C22_LongUnbroken ==
    /\ fpc = "formatted"
    /\ Len(name) > 8
    /\ \A i \in DOMAIN name : ~IsSpace(name[i])

\* a surname of the dictionary was found, and a given name
C22_BothHit ==
    /\ \E a \in DOMAIN apellidos_comunes :
          Contains(Upper(name), apellidos_comunes[a])
    /\ nombres_encontrados # {}

\* the cut the claim describes; character i is the (i + 1)-th
C22_Cut ==
    LET nm  == Upper(name)
        mid == Len(nm) \div 2
        at  == {i \in (mid - 3)..(mid + 3) :
                   nm[i + 1] \in C22_Vowels /\ nm[i + 2] \notin C22_Vowels}
    IN  IF at = {} THEN mid ELSE Min(at) + 1

C22_DefaultCut ==
    (C22_LongUnbroken /\ ~C22_BothHit) =>
        /\ C22_Cut \in 1..(Len(name) - 1)
        /\ formatted = Capitalize(SubSeq(Upper(name), C22_Cut + 1, Len(name)))
                       \o <<" ">>
                       \o Capitalize(SubSeq(Upper(name), 1, C22_Cut))
        /\ Len(formatted) = Len(name) + 1

\* NANANANANA: the middle is 5, the first vowel before a consonant from 2
\* on is character 3, the cut is 4
C22_Witness ==
    /\ C22_LongUnbroken /\ ~C22_BothHit
    /\ name = <<"N","A","N","A","N","A","N","A","N","A">>
    /\ C22_Cut = 4
    /\ formatted = <<"N","a","n","a","n","a"," ","N","a","n","a">>

(***************************************************************************)
(* C25: within one perform_full_matching run every registry row is the     *)
(* source of at most one match result: a row used by a match by cedula, or *)
(* by an earlier match by name, is not matched again by another PDF        *)
(* record.                                                                 *)
(***************************************************************************)
\* the rows of the sheet the match results of the run were built from, in
\* the order of the results: the first row carrying the cedula (C21) for a
\* match by cedula, the first row of the highest similarity (C9) for a
\* match by name
C25_RowsUsed ==
    [k \in DOMAIN matched_by_cedula |->
        Min(C21_RowsOf(matched_by_cedula[k].cedula))]
    \o [k \in DOMAIN matched_by_name |->
        Min(C9_Tied(C9_SourceOf(k).nombre))]

C25_EachRowOnce ==
    run_returned =>
        \A a, b \in DOMAIN C25_RowsUsed :
            a # b => C25_RowsUsed[a] # C25_RowsUsed[b]


(***************************************************************************)
(* C26: match_by_name never makes a match result for a PDF record whose    *)
(* name normalizes to the empty text (a name of punctuation and blanks     *)
(* only), whatever the registry, for a threshold between 0.5 and 1.0: all  *)
(* such records of the batch are in the unmatched list it returns.         *)
(***************************************************************************)
C26_NormalizesToEmpty(emp) == normalize_text(emp.nombre) = <<>>

C26_EmptyNameNeverMatched ==
    (/\ pc = "ReturnedByName"
     /\ FLeq(<<1, 2>>, min_name_similarity)
     /\ FLeq(min_name_similarity, <<1, 1>>))
    => SelectSeq(unmatched_by_name, C26_NormalizesToEmpty)
          = SelectSeq(pdf_employees, C26_NormalizesToEmpty)

(***************************************************************************)
(* C27: the cedula of a match result by cedula is the cedula of the PDF    *)
(* record, as it is written there; the cedula of a match result by name is *)
(* the cedula of the registry record that won.  So a PDF record whose      *)
(* cedula (not empty) has no row in the registry and whose name matches is *)
(* reported under the cedula of the registry, and its own cedula is in no  *)
(* record of the matched list or of the consolidated data.                 *)
(***************************************************************************)
\* the remaining records matched by name that carry a cedula of their own
C27_NamedWithOwnId ==
    {i \in C8_ReachThresholdAboveZero : remaining_after_cedula[i].cedula # <<>>}

C27_IdOfMatchResult ==
    /\ (C5_AfterMatchById \/ run_returned) =>
          /\ Len(matched_by_cedula) = Cardinality(C21_Hit)
          /\ \A i \in C21_Hit :
                /\ matched_by_cedula[C21_ResultOf(i)].match_method = "cedula"
                /\ matched_by_cedula[C21_ResultOf(i)].cedula = pdf_employees[i].cedula
    /\ run_returned =>
          /\ Len(matched_by_name) = Cardinality(C8_ReachThresholdAboveZero)
          /\ \A k \in DOMAIN matched_by_name :
                /\ matched_by_name[k].match_method = "nombre"
                /\ matched_by_name[k].cedula
                      = registry_records[Min(C9_Tied(C9_SourceOf(k).nombre))].cedula
          /\ \A i \in C27_NamedWithOwnId :
                /\ \A k \in DOMAIN matched_employees :
                      matched_employees[k].cedula # remaining_after_cedula[i].cedula
                /\ pc = "Consolidated" =>
                      /\ Len(consolidated) = Len(matched_employees)
                      /\ \A k \in DOMAIN consolidated :
                            consolidated[k].cedula # remaining_after_cedula[i].cedula

\* a run with a result by cedula whose cedula the registry writes with
\* dots, and a result by name for a record with a cedula of its own, the
\* whole consolidated
C27_Witness ==
    /\ pc = "Consolidated"
    /\ \E i \in C21_Hit :
          \E r \in C21_RowsOf(pdf_employees[i].cedula) :
              dataframe[r].cedula # pdf_employees[i].cedula
    /\ C27_NamedWithOwnId # {}
    /\ \E k \in DOMAIN matched_by_name : matched_by_name[k].cedula # <<>>

(***************************************************************************)
(* C24: when the PDF collaborator, the ID pass or the name pass raises in  *)
(* perform_full_matching (a collaborator that is None included), the call  *)
(* ends with the error and self.matched_employees and                      *)
(* self.unmatched_employees are what they were before the call: only the   *)
(* step that completes a run stores anything.                              *)
(***************************************************************************)
C24_Stored == <<matched_employees, unmatched_employees>>

\* a step of a call that cannot go on
C24_MustRaise ==
    \/ pc \in {"Idle", "Done", "Raised"} /\ pdf_extractor = "None"
    \/ /\ pc = "IDMatching"
       /\ \/ registry_absent_raises(pdf_employees, excel_processor)
          \/ match_by_cedula_raises(pdf_employees, column_mapping)
    \/ pc = "NameMatching" /\ match_by_name_raises(excel_processor)

C24_AbortedRunStoresNothing ==
    [][/\ C24_MustRaise => pc' = "Raised"
       /\ pc' # "Done" => C24_Stored' = C24_Stored
       /\ pc' = "Done" => pc = "NameMatching"]_vars

\* a call that raised in the ID pass on a matcher that holds, from the call
\* before, a matched and an unmatched record
C24_Witness ==
    /\ pc = "Raised"
    /\ match_by_cedula_raises(pdf_employees, column_mapping)
    /\ matched_employees # <<>>
    /\ unmatched_employees # <<>>

\* a call that raised in the name pass
C24_WitnessNamePass ==
    /\ pc = "Raised"
    /\ pdf_extractor = "PDFExtractor"
    /\ excel_processor = "None"
    /\ pdf_employees # <<>>
    /\ ~registry_absent_raises(pdf_employees, excel_processor)

(***************************************************************************)
(* C23                                                                     *)
(***************************************************************************)
C23_InRange(similarity) ==
    float_le(<<1, 2>>, similarity) /\ float_le(similarity, <<1, 1>>)

\* a matching was run from the command line
C23_MatchingRan == pc # "Unused"

\* validate_inputs has been reached, a matching has been run or the window
\* has been started
C23_WentOn ==
    \/ main_pc \in {"checked", "validated", "mainloop"}
    \/ C23_MatchingRan

\* every matching of the command line runs with the threshold of the
\* command line, which is between 0.5 and 1.0
C23_MatchingInRange ==
    C23_MatchingRan =>
        /\ min_name_similarity = argv.similarity
        /\ C23_InRange(min_name_similarity)

\* C23 as claimed: main() rejects every --similarity value outside
\* [0.5, 1.0] by exiting with status 1 before a file is validated, a
\* matching is run or the window is started; so every perform_full_matching
\* of the command line runs with a threshold in [0.5, 1.0].  For every
\* command line, those with --help, --version or a usage error included.
C23_EveryValueRejectedWithStatus1 ==
    /\ ~C23_InRange(argv.similarity) =>
          /\ ~C23_WentOn
          /\ main_pc = "exited" => exit_status = 1
    /\ C23_MatchingInRange

\* C23 as amended: once parse_args() has returned the arguments, a
\* --similarity value outside [0.5, 1.0] makes the next step of main() the
\* exit with status 1, with no file validated, no matching run and no
\* window started before or after; so every perform_full_matching of the
\* command line runs with a threshold in [0.5, 1.0].  (parse_args() itself
\* ends the process with status 0 or 2 on --help, --version or a usage
\* error, whatever the value.)
C23_RejectedOnceParsed ==
    /\ [](/\ ~C23_InRange(argv.similarity) => ~C23_WentOn
          /\ (args # <<>> /\ ~C23_InRange(args.similarity) /\ main_pc = "exited")
                => exit_status = 1
          /\ args # <<>> => args.similarity = argv.similarity
          /\ C23_MatchingInRange)
    /\ [][(main_pc = "parsed" /\ ~C23_InRange(args.similarity))
             => (main_pc' = "exited" /\ exit_status' = 1
                 /\ UNCHANGED linkVars)]_vars

\* --similarity 2 --cli PDF EXCEL: exit with status 1, nothing run
C23_Witness ==
    /\ argv.similarity = <<2, 1>> /\ argv.cli
    /\ args # <<>>
    /\ main_pc = "exited" /\ exit_status = 1
    /\ pc = "Unused"

\* --similarity 0.5 --cli PDF EXCEL: a matching at the threshold 0.5
C23_WitnessLowest ==
    /\ argv.similarity = <<1, 2>>
    /\ pc = "Consolidated"
    /\ min_name_similarity = <<1, 2>>
    /\ exit_status = 0

(***************************************************************************)
(* C28: in the window at most one pipeline thread runs at any time.        *)
(* process_files disables the process button before it starts the thread,  *)
(* and the button is enabled again only by the reset the thread asks for   *)
(* when it ends; so however the button is pressed, no second run starts    *)
(* while one is in progress.                                               *)
(***************************************************************************)
\* the threads that have been started and have not ended
C28_Running == {w \in Workers : workers[w].pc \notin {"unstarted", "finished"}}

C28_AtMostOneWorker ==
    /\ [](/\ Cardinality(C28_Running) <= 1
          /\ C28_Running # {} => process_button = "disabled"
          /\ after_callbacks # <<>> =>
                process_button = "disabled" /\ C28_Running = {})
    /\ [][/\ C28_Running' \ C28_Running # {} =>
                /\ process_button = "normal"
                /\ process_button' = "disabled"
                /\ C28_Running = {}
          /\ (process_button = "disabled" /\ process_button' = "normal") =>
                /\ after_callbacks # <<>>
                /\ after_callbacks' = Tail(after_callbacks)
                /\ UNCHANGED workers]_vars

\* a second run in progress, the window of the first one still there
C28_Witness ==
    /\ results_window # <<>>
    /\ \E w \in Workers : workers[w].pc = "finished"
    /\ \E w \in Workers : workers[w].pc = "pipeline"
    /\ process_button = "disabled"

(***************************************************************************)
(* C29: once process_files has started a thread, the process button is in  *)
(* the end enabled again, whichever way the thread goes: success, an error *)
(* in a step of the pipeline, or an error before the progress window is    *)
(* there.  Every message box is dismissed in the end and the main loop     *)
(* keeps running.                                                          *)
(***************************************************************************)
C29_ButtonResetInTheEnd ==
    (process_button = "disabled")
       ~> (process_button = "normal" /\ C28_Running = {})

\* the button enabled again after a run that failed before its progress
\* window, and after one that failed in the pipeline
C29_Witness ==
    /\ process_button = "normal"
    /\ C28_Running = {}
    /\ \E w \in Workers :
          workers[w].pc = "finished" /\ workers[w].outcome = "critical"
    /\ \E w \in Workers :
          workers[w].pc = "finished" /\ workers[w].outcome = "error"

(***************************************************************************)
(* C30: after a successful run in the window, the matched tab of the       *)
(* ResultsWindow lists exactly the match results perform_full_matching     *)
(* returned, the number in its title being statistics.total_matched, and   *)
(* the unmatched tab lists exactly the unmatched records it returned.      *)
(***************************************************************************)
C30_TabsListWhatWasReturned ==
    results_window # <<>> =>
        /\ \A w \in Workers :
              workers[w].pc = "dialog" /\ workers[w].outcome = "success" =>
                 /\ results_window.results.matched
                       = workers[w].matching_results.matched
                 /\ results_window.results.unmatched
                       = workers[w].matching_results.unmatched
        /\ results_window.matched_rows
              = MapSeq(results_window.results.matched, matched_tab_row)
        /\ results_window.matched_count
              = results_window.results.statistics.total_matched
        /\ results_window.unmatched_rows
              = MapSeq(results_window.results.unmatched, unmatched_tab_row)

=============================================================================
